---- MODULE Spec2Model ----
(***************************************************************************)
(* Enrichment of lawyer directory records from firm websites.              *)
(*                                                                         *)
(* The model follows data-collection/website_scraper.py: the field        *)
(* extractors of LawyerWebsiteScraper that work on the page text, the      *)
(* result dictionary built by scrape_website, and the merge loop of        *)
(* enrich_lawyers_with_website_data; and, from description_generator.py,   *)
(* the features paragraph that reads the merged record.                    *)
(*                                                                         *)
(* Text the code inspects character by character (page text, keywords,    *)
(* specializations, emails) is a sequence of code points, so lower(),      *)
(* title(), sorted() and re.search are computed as Python computes them.   *)
(* Text the code only measures or copies (descriptions, meta tags) is a    *)
(* record [src, len]: where the text came from and its length.             *)
(***************************************************************************)
EXTENDS Integers, Sequences, FiniteSets, TLC

(***************************************************************************)
(* Strings as sequences of code points                                     *)
(***************************************************************************)
IsUpper(c) == c \in 65..90
IsLower(c) == c \in 97..122
IsCased(c) == IsUpper(c) \/ IsLower(c)
IsDigit(c) == c \in 48..57
IsSpace(c) == c \in {9, 10, 11, 12, 13, 32}

\* str.lower()
lower(s) == [k \in 1..Len(s) |-> IF IsUpper(s[k]) THEN s[k] + 32 ELSE s[k]]

\* str.title(): a cased character is upper-cased when the character before it
\* is not cased, and lower-cased otherwise.
title(s) ==
    [k \in 1..Len(s) |->
        IF k > 1 /\ IsCased(s[k - 1])
        THEN (IF IsUpper(s[k]) THEN s[k] + 32 ELSE s[k])
        ELSE (IF IsLower(s[k]) THEN s[k] - 32 ELSE s[k])]

\* `sub in text`
Contains(text, sub) ==
    \E p \in 1..(Len(text) - Len(sub) + 1) :
        SubSeq(text, p, p + Len(sub) - 1) = sub

\* a < b for Python strings: code point by code point, a proper prefix first.
StrLess(a, b) ==
    \E k \in 1..(Len(b)) :
        /\ k <= Len(a) + 1
        /\ \A j \in 1..(k - 1) : a[j] = b[j]
        /\ (k = Len(a) + 1 \/ a[k] < b[k])

\* sorted(list(S)) for a set S of strings.
RECURSIVE sorted(_)
sorted(S) ==
    IF S = {} THEN <<>>
    ELSE LET m == CHOOSE x \in S : \A y \in S : x = y \/ StrLess(x, y)
         IN  <<m>> \o sorted(S \ {m})

\* int(s) for a string of ASCII digits.
RECURSIVE int(_)
int(s) ==
    IF Len(s) = 0 THEN 0
    ELSE 10 * int(SubSeq(s, 1, Len(s) - 1)) + (s[Len(s)] - 48)

Range(seq) == {seq[k] : k \in DOMAIN seq}
SetMin(S) == CHOOSE x \in S : \A y \in S : x <= y
SetMax(S) == CHOOSE x \in S : \A y \in S : y <= x

(***************************************************************************)
(* Regular expressions, as far as the scraper's patterns need them.  A     *)
(* pattern is a sequence of elements; Ends gives every position a match of *)
(* the pattern can end at when it starts at one of the positions P (a      *)
(* position is the index of the next character to read).                  *)
(***************************************************************************)
Lit(s) == [t |-> "lit", s |-> s]          \* the literal s
WS == [t |-> "ws"]                        \* \s*
Digits == [t |-> "digits"]                \* \d+
Digit4 == [t |-> "digit4"]                \* \d{4}
Opt(p) == [t |-> "opt", p |-> p]          \* (p)?
Alt(ps) == [t |-> "alt", ps |-> ps]       \* p1|p2|...

RECURSIVE Ends(_, _, _, _)
RECURSIVE StepEnds(_, _, _)
StepEnds(e, text, P) ==
    CASE e.t = "lit" ->
            {p + Len(e.s) : p \in {q \in P : /\ q + Len(e.s) - 1 <= Len(text)
                                            /\ SubSeq(text, q, q + Len(e.s) - 1) = e.s}}
      [] e.t = "ws" ->
            {q \in 1..(Len(text) + 1) :
                \E p \in P : p <= q /\ \A j \in p..(q - 1) : IsSpace(text[j])}
      [] e.t = "digits" ->
            {q \in 1..(Len(text) + 1) :
                \E p \in P : p < q /\ \A j \in p..(q - 1) : IsDigit(text[j])}
      [] e.t = "digit4" ->
            {p + 4 : p \in {q \in P : /\ q + 3 <= Len(text)
                                     /\ \A j \in q..(q + 3) : IsDigit(text[j])}}
      [] e.t = "opt" -> P \cup Ends(e.p, 1, text, P)
      [] e.t = "alt" -> UNION {Ends(e.ps[a], 1, text, P) : a \in DOMAIN e.ps}

Ends(pat, k, text, P) ==
    IF k > Len(pat) \/ P = {} THEN P
    ELSE Ends(pat, k + 1, text, StepEnds(pat[k], text, P))

\* The positions at which re.search(pat, text) can start a match.
MatchStarts(pat, text) ==
    {p \in 1..(Len(text) + 1) : Ends(pat, 1, text, {p}) # {}}

\* bool(re.search(pat, text))
Found(pat, text) == MatchStarts(pat, text) # {}

\* The keyword vocabulary of _extract_specializations.
keywords ==
    << \* "medical negligence"
       <<109, 101, 100, 105, 99, 97, 108, 32, 110, 101, 103, 108, 105, 103, 101, 110, 99, 101>>,
       \* "medical malpractice"
       <<109, 101, 100, 105, 99, 97, 108, 32, 109, 97, 108, 112, 114, 97, 99, 116, 105, 99, 101>>,
       \* "clinical negligence"
       <<99, 108, 105, 110, 105, 99, 97, 108, 32, 110, 101, 103, 108, 105, 103, 101, 110, 99, 101>>,
       \* "surgical error"
       <<115, 117, 114, 103, 105, 99, 97, 108, 32, 101, 114, 114, 111, 114>>,
       \* "misdiagnosis"
       <<109, 105, 115, 100, 105, 97, 103, 110, 111, 115, 105, 115>>,
       \* "birth injury"
       <<98, 105, 114, 116, 104, 32, 105, 110, 106, 117, 114, 121>>,
       \* "medication error"
       <<109, 101, 100, 105, 99, 97, 116, 105, 111, 110, 32, 101, 114, 114, 111, 114>>,
       \* "hospital negligence"
       <<104, 111, 115, 112, 105, 116, 97, 108, 32, 110, 101, 103, 108, 105, 103, 101, 110, 99, 101>>,
       \* "anesthesia error"
       <<97, 110, 101, 115, 116, 104, 101, 115, 105, 97, 32, 101, 114, 114, 111, 114>>,
       \* "emergency room error"
       <<101, 109, 101, 114, 103, 101, 110, 99, 121, 32, 114, 111, 111, 109, 32, 101, 114, 114, 111, 114>>,
       \* "nursing home abuse"
       <<110, 117, 114, 115, 105, 110, 103, 32, 104, 111, 109, 101, 32, 97, 98, 117, 115, 101>>,
       \* "dental negligence"
       <<100, 101, 110, 116, 97, 108, 32, 110, 101, 103, 108, 105, 103, 101, 110, 99, 101>>,
       \* "obstetric negligence"
       <<111, 98, 115, 116, 101, 116, 114, 105, 99, 32, 110, 101, 103, 108, 105, 103, 101, 110, 99, 101>> >>

\* Literal pieces of the regular expressions and of the email blacklist.
w ==
    \* "no"
    "no" :> <<110, 111>>
    \* "win"
    @@ "win" :> <<119, 105, 110>>
    \* "fee"
    @@ "fee" :> <<102, 101, 101>>
    \* "free"
    @@ "free" :> <<102, 114, 101, 101>>
    \* "consultation"
    @@ "consultation" :> <<99, 111, 110, 115, 117, 108, 116, 97, 116, 105, 111, 110>>
    \* "complimentary"
    @@ "complimentary" :> <<99, 111, 109, 112, 108, 105, 109, 101, 110, 116, 97, 114, 121>>
    \* "home"
    @@ "home" :> <<104, 111, 109, 101>>
    \* "visit"
    @@ "visit" :> <<118, 105, 115, 105, 116>>
    \* "you"
    @@ "you" :> <<121, 111, 117>>
    \* "at"
    @@ "at" :> <<97, 116>>
    \* "telehealth"
    @@ "telehealth" :> <<116, 101, 108, 101, 104, 101, 97, 108, 116, 104>>
    \* "video"
    @@ "video" :> <<118, 105, 100, 101, 111>>
    \* "zoom"
    @@ "zoom" :> <<122, 111, 111, 109>>
    \* "meeting"
    @@ "meeting" :> <<109, 101, 101, 116, 105, 110, 103>>
    \* "24"
    @@ "24" :> <<50, 52>>
    \* "7"
    @@ "7" :> <<55>>
    \* "hour"
    @@ "hour" :> <<104, 111, 117, 114>>
    \* "years"
    @@ "years" :> <<121, 101, 97, 114, 115>>
    \* "of"
    @@ "of" :> <<111, 102>>
    \* "experience"
    @@ "experience" :> <<101, 120, 112, 101, 114, 105, 101, 110, 99, 101>>
    \* "since"
    @@ "since" :> <<115, 105, 110, 99, 101>>
    \* "established"
    @@ "established" :> <<101, 115, 116, 97, 98, 108, 105, 115, 104, 101, 100>>
    \* "founded"
    @@ "founded" :> <<102, 111, 117, 110, 100, 101, 100>>
    \* "example"
    @@ "example" :> <<101, 120, 97, 109, 112, 108, 101>>
    \* "test"
    @@ "test" :> <<116, 101, 115, 116>>
    \* "noreply"
    @@ "noreply" :> <<110, 111, 114, 101, 112, 108, 121>>
    \* ","
    @@ "comma" :> <<44>>
    \* "/"
    @@ "slash" :> <<47>>
    \* "+"
    @@ "plus" :> <<43>>

\* Page texts (soup.get_text()) the model draws from.
sample_text ==
    \* ""
    "empty" :> <<>>
    \* "No Win, No Fee"
    @@ "no_win" :> <<78, 111, 32, 87, 105, 110, 44, 32, 78, 111, 32, 70, 101, 101>>
    \* "Free consultation"
    @@ "free" :> <<70, 114, 101, 101, 32, 99, 111, 110, 115, 117, 108, 116, 97, 116, 105, 111, 110>>
    \* "We visit you at home"
    @@ "home" :> <<87, 101, 32, 118, 105, 115, 105, 116, 32, 121, 111, 117, 32, 97, 116, 32, 104, 111, 109, 101>>
    \* "Zoom meetings"
    @@ "zoom" :> <<90, 111, 111, 109, 32, 109, 101, 101, 116, 105, 110, 103, 115>>
    \* "Open 24/7"
    @@ "24_7" :> <<79, 112, 101, 110, 32, 50, 52, 47, 55>>
    \* "with over 22+ years experience"
    @@ "22_years" :> <<119, 105, 116, 104, 32, 111, 118, 101, 114, 32, 50, 50, 43, 32, 121, 101, 97, 114, 115, 32, 101, 120, 112, 101, 114, 105, 101, 110, 99, 101>>
    \* "Established 1999"
    @@ "established" :> <<69, 115, 116, 97, 98, 108, 105, 115, 104, 101, 100, 32, 49, 57, 57, 57>>
    \* "500 years of experience"
    @@ "500_years" :> <<53, 48, 48, 32, 121, 101, 97, 114, 115, 32, 111, 102, 32, 101, 120, 112, 101, 114, 105, 101, 110, 99, 101>>
    \* "Founded 2024"
    @@ "founded_2024" :> <<70, 111, 117, 110, 100, 101, 100, 32, 50, 48, 50, 52>>
    \* "since 1949"
    @@ "since_1949" :> <<115, 105, 110, 99, 101, 32, 49, 57, 52, 57>>
    \* "Birth injury and SURGICAL ERROR claims"
    @@ "specs" :> <<66, 105, 114, 116, 104, 32, 105, 110, 106, 117, 114, 121, 32, 97, 110, 100, 32, 83, 85, 82, 71, 73, 67, 65, 76, 32, 69, 82, 82, 79, 82, 32, 99, 108, 97, 105, 109, 115>>
    \* "No win no fee, free consultation, home visits, telehealth. 25 years of experience in misdiagnosis and birth injury."
    @@ "full" :> <<78, 111, 32, 119, 105, 110, 32, 110, 111, 32, 102, 101, 101, 44, 32, 102, 114, 101, 101, 32, 99, 111, 110, 115, 117, 108, 116, 97, 116, 105, 111, 110, 44, 32, 104, 111, 109, 101, 32, 118, 105, 115, 105, 116, 115, 44, 32, 116, 101, 108, 101, 104, 101, 97, 108, 116, 104, 46, 32, 50, 53, 32, 121, 101, 97, 114, 115, 32, 111, 102, 32, 101, 120, 112, 101, 114, 105, 101, 110, 99, 101, 32, 105, 110, 32, 109, 105, 115, 100, 105, 97, 103, 110, 111, 115, 105, 115, 32, 97, 110, 100, 32, 98, 105, 114, 116, 104, 32, 105, 110, 106, 117, 114, 121, 46>>

SampleTexts == {sample_text[k] : k \in DOMAIN sample_text}

\* Addresses the email pattern finds on a page, and one a record holds.
email ==
    \* "info@smithlaw.com.au"
    "info" :> <<105, 110, 102, 111, 64, 115, 109, 105, 116, 104, 108, 97, 119, 46, 99, 111, 109, 46, 97, 117>>
    \* "NoReply@smithlaw.com.au"
    @@ "noreply" :> <<78, 111, 82, 101, 112, 108, 121, 64, 115, 109, 105, 116, 104, 108, 97, 119, 46, 99, 111, 109, 46, 97, 117>>
    \* "office@smithlaw.com.au"
    @@ "old" :> <<111, 102, 102, 105, 99, 101, 64, 115, 109, 105, 116, 104, 108, 97, 119, 46, 99, 111, 109, 46, 97, 117>>
    \* "admin@example.com"
    @@ "example" :> <<97, 100, 109, 105, 110, 64, 101, 120, 97, 109, 112, 108, 101, 46, 99, 111, 109>>
    \* "test@smithlaw.com.au"
    @@ "test" :> <<116, 101, 115, 116, 64, 115, 109, 105, 116, 104, 108, 97, 119, 46, 99, 111, 109, 46, 97, 117>>

\* Specializations a record can hold.
specialization ==
    \* "birth injury"
    "birth_lower" :> <<98, 105, 114, 116, 104, 32, 105, 110, 106, 117, 114, 121>>
    \* "Birth Injury"
    @@ "birth_title" :> <<66, 105, 114, 116, 104, 32, 73, 110, 106, 117, 114, 121>>
    \* "Surgical Error"
    @@ "surgical_title" :> <<83, 117, 114, 103, 105, 99, 97, 108, 32, 69, 114, 114, 111, 114>>
    \* "Cerebral Palsy"
    @@ "cerebral_palsy" :> <<67, 101, 114, 101, 98, 114, 97, 108, 32, 80, 97, 108, 115, 121>>

\* The phrases of _generate_features_paragraph.
features_text ==
    \* "no win, no fee arrangements"
    "no_win_no_fee" :> <<110, 111, 32, 119, 105, 110, 44, 32, 110, 111, 32, 102, 101, 101, 32, 97, 114, 114, 97, 110, 103, 101, 109, 101, 110, 116, 115>>
    \* "free initial consultations"
    @@ "free_consultation" :> <<102, 114, 101, 101, 32, 105, 110, 105, 116, 105, 97, 108, 32, 99, 111, 110, 115, 117, 108, 116, 97, 116, 105, 111, 110, 115>>
    \* "home and hospital visits"
    @@ "home_visits" :> <<104, 111, 109, 101, 32, 97, 110, 100, 32, 104, 111, 115, 112, 105, 116, 97, 108, 32, 118, 105, 115, 105, 116, 115>>
    \* "virtual consultations"
    @@ "telehealth" :> <<118, 105, 114, 116, 117, 97, 108, 32, 99, 111, 110, 115, 117, 108, 116, 97, 116, 105, 111, 110, 115>>
    \* "We are committed to providing accessible, compassionate legal services to medical negligence victims. Our client-focused approach ensures you receive the personal attention and expert representation your case deserves."
    @@ "fallback" :> <<87, 101, 32, 97, 114, 101, 32, 99, 111, 109, 109, 105, 116, 116, 101, 100, 32, 116, 111, 32, 112, 114, 111, 118, 105, 100, 105, 110, 103, 32, 97, 99, 99, 101, 115, 115, 105, 98, 108, 101, 44, 32, 99, 111, 109, 112, 97, 115, 115, 105, 111, 110, 97, 116, 101, 32, 108, 101, 103, 97, 108, 32, 115, 101, 114, 118, 105, 99, 101, 115, 32, 116, 111, 32, 109, 101, 100, 105, 99, 97, 108, 32, 110, 101, 103, 108, 105, 103, 101, 110, 99, 101, 32, 118, 105, 99, 116, 105, 109, 115, 46, 32, 79, 117, 114, 32, 99, 108, 105, 101, 110, 116, 45, 102, 111, 99, 117, 115, 101, 100, 32, 97, 112, 112, 114, 111, 97, 99, 104, 32, 101, 110, 115, 117, 114, 101, 115, 32, 121, 111, 117, 32, 114, 101, 99, 101, 105, 118, 101, 32, 116, 104, 101, 32, 112, 101, 114, 115, 111, 110, 97, 108, 32, 97, 116, 116, 101, 110, 116, 105, 111, 110, 32, 97, 110, 100, 32, 101, 120, 112, 101, 114, 116, 32, 114, 101, 112, 114, 101, 115, 101, 110, 116, 97, 116, 105, 111, 110, 32, 121, 111, 117, 114, 32, 99, 97, 115, 101, 32, 100, 101, 115, 101, 114, 118, 101, 115, 46>>
    \* "We understand that pursuing a medical negligence claim can be daunting, which is why we offer "
    @@ "offer" :> <<87, 101, 32, 117, 110, 100, 101, 114, 115, 116, 97, 110, 100, 32, 116, 104, 97, 116, 32, 112, 117, 114, 115, 117, 105, 110, 103, 32, 97, 32, 109, 101, 100, 105, 99, 97, 108, 32, 110, 101, 103, 108, 105, 103, 101, 110, 99, 101, 32, 99, 108, 97, 105, 109, 32, 99, 97, 110, 32, 98, 101, 32, 100, 97, 117, 110, 116, 105, 110, 103, 44, 32, 119, 104, 105, 99, 104, 32, 105, 115, 32, 119, 104, 121, 32, 119, 101, 32, 111, 102, 102, 101, 114, 32>>
    \* "Our compassionate approach means we take the time to understand your situation and guide you through every step of the legal process."
    @@ "approach" :> <<79, 117, 114, 32, 99, 111, 109, 112, 97, 115, 115, 105, 111, 110, 97, 116, 101, 32, 97, 112, 112, 114, 111, 97, 99, 104, 32, 109, 101, 97, 110, 115, 32, 119, 101, 32, 116, 97, 107, 101, 32, 116, 104, 101, 32, 116, 105, 109, 101, 32, 116, 111, 32, 117, 110, 100, 101, 114, 115, 116, 97, 110, 100, 32, 121, 111, 117, 114, 32, 115, 105, 116, 117, 97, 116, 105, 111, 110, 32, 97, 110, 100, 32, 103, 117, 105, 100, 101, 32, 121, 111, 117, 32, 116, 104, 114, 111, 117, 103, 104, 32, 101, 118, 101, 114, 121, 32, 115, 116, 101, 112, 32, 111, 102, 32, 116, 104, 101, 32, 108, 101, 103, 97, 108, 32, 112, 114, 111, 99, 101, 115, 115, 46>>
    \* " We pride ourselves on our responsiveness, typically responding to inquiries "
    @@ "response" :> <<32, 87, 101, 32, 112, 114, 105, 100, 101, 32, 111, 117, 114, 115, 101, 108, 118, 101, 115, 32, 111, 110, 32, 111, 117, 114, 32, 114, 101, 115, 112, 111, 110, 115, 105, 118, 101, 110, 101, 115, 115, 44, 32, 116, 121, 112, 105, 99, 97, 108, 108, 121, 32, 114, 101, 115, 112, 111, 110, 100, 105, 110, 103, 32, 116, 111, 32, 105, 110, 113, 117, 105, 114, 105, 101, 115, 32>>

\* The defaults of a missing firm_name.
default_firm ==
    \* "This law firm"
    "this_law_firm" :> <<84, 104, 105, 115, 32, 108, 97, 119, 32, 102, 105, 114, 109>>
    \* "Medical negligence lawyers"
    @@ "meta_firm" :> <<77, 101, 100, 105, 99, 97, 108, 32, 110, 101, 103, 108, 105, 103, 101, 110, 99, 101, 32, 108, 97, 119, 121, 101, 114, 115>>
    \* "Medical Negligence Lawyers"
    @@ "title_firm" :> <<77, 101, 100, 105, 99, 97, 108, 32, 78, 101, 103, 108, 105, 103, 101, 110, 99, 101, 32, 76, 97, 119, 121, 101, 114, 115>>
    \* "our firm"
    @@ "cta_firm" :> <<111, 117, 114, 32, 102, 105, 114, 109>>

\* The phrases of generate_short_description.
short_text ==
    \* "medical negligence"
    "medical_negligence" :> <<109, 101, 100, 105, 99, 97, 108, 32, 110, 101, 103, 108, 105, 103, 101, 110, 99, 101>>
    \* "+ years experience"
    @@ "years" :> <<43, 32, 121, 101, 97, 114, 115, 32, 101, 120, 112, 101, 114, 105, 101, 110, 99, 101>>
    \* "in "
    @@ "in" :> <<105, 110, 32>>
    \* "no win no fee"
    @@ "no_win" :> <<110, 111, 32, 119, 105, 110, 32, 110, 111, 32, 102, 101, 101>>
    \* "free consultation"
    @@ "free" :> <<102, 114, 101, 101, 32, 99, 111, 110, 115, 117, 108, 116, 97, 116, 105, 111, 110>>
    \* " | "
    @@ "bar" :> <<32, 124, 32>>
    \* " - "
    @@ "dash" :> <<32, 45, 32>>
    \* " lawyers in "
    @@ "lawyers_in" :> <<32, 108, 97, 119, 121, 101, 114, 115, 32, 105, 110, 32>>
    \* "Expert representation"
    @@ "expert" :> <<69, 120, 112, 101, 114, 116, 32, 114, 101, 112, 114, 101, 115, 101, 110, 116, 97, 116, 105, 111, 110>>

\* The phrases of generate_meta_description and generate_meta_title.
meta_text ==
    \* "+ yrs exp"
    "yrs" :> <<43, 32, 121, 114, 115, 32, 101, 120, 112>>
    \* "% success rate"
    @@ "success" :> <<37, 32, 115, 117, 99, 99, 101, 115, 115, 32, 114, 97, 116, 101>>
    \* "No win no fee"
    @@ "no_win" :> <<78, 111, 32, 119, 105, 110, 32, 110, 111, 32, 102, 101, 101>>
    \* "Free consultation"
    @@ "free" :> <<70, 114, 101, 101, 32, 99, 111, 110, 115, 117, 108, 116, 97, 116, 105, 111, 110>>
    \* ". Call today."
    @@ "call" :> <<46, 32, 67, 97, 108, 108, 32, 116, 111, 100, 97, 121, 46>>
    \* "..."
    @@ "ellipsis" :> <<46, 46, 46>>
    \* "Medical Negligence Lawyers "
    @@ "title_generic" :> <<77, 101, 100, 105, 99, 97, 108, 32, 78, 101, 103, 108, 105, 103, 101, 110, 99, 101, 32, 76, 97, 119, 121, 101, 114, 115, 32>>
    \* " "
    @@ "space" :> <<32>>

\* The phrases of _generate_intro.
intro_text ==
    \* "highly experienced"
    "highly_experienced" :> <<104, 105, 103, 104, 108, 121, 32, 101, 120, 112, 101, 114, 105, 101, 110, 99, 101, 100>>
    \* "experienced"
    @@ "experienced" :> <<101, 120, 112, 101, 114, 105, 101, 110, 99, 101, 100>>
    \* "top-rated"
    @@ "top_rated" :> <<116, 111, 112, 45, 114, 97, 116, 101, 100>>
    \* "well-regarded"
    @@ "well_regarded" :> <<119, 101, 108, 108, 45, 114, 101, 103, 97, 114, 100, 101, 100>>
    \* "award-winning"
    @@ "award_winning" :> <<97, 119, 97, 114, 100, 45, 119, 105, 110, 110, 105, 110, 103>>
    \* "dedicated"
    @@ "dedicated" :> <<100, 101, 100, 105, 99, 97, 116, 101, 100>>
    \* " is a "
    @@ "is_a" :> <<32, 105, 115, 32, 97, 32>>
    \* " medical negligence law firm"
    @@ "firm" :> <<32, 109, 101, 100, 105, 99, 97, 108, 32, 110, 101, 103, 108, 105, 103, 101, 110, 99, 101, 32, 108, 97, 119, 32, 102, 105, 114, 109>>
    \* " serving "
    @@ "serving" :> <<32, 115, 101, 114, 118, 105, 110, 103, 32>>
    \* " based in "
    @@ "based" :> <<32, 98, 97, 115, 101, 100, 32, 105, 110, 32>>
    \* " Since "
    @@ "since" :> <<32, 83, 105, 110, 99, 101, 32>>
    \* ", we have been dedicated to representing victims of medical malpractice."
    @@ "since_tail" :> <<44, 32, 119, 101, 32, 104, 97, 118, 101, 32, 98, 101, 101, 110, 32, 100, 101, 100, 105, 99, 97, 116, 101, 100, 32, 116, 111, 32, 114, 101, 112, 114, 101, 115, 101, 110, 116, 105, 110, 103, 32, 118, 105, 99, 116, 105, 109, 115, 32, 111, 102, 32, 109, 101, 100, 105, 99, 97, 108, 32, 109, 97, 108, 112, 114, 97, 99, 116, 105, 99, 101, 46>>
    \* " With over "
    @@ "with" :> <<32, 87, 105, 116, 104, 32, 111, 118, 101, 114, 32>>
    \* " years of experience, we have successfully represented numerous medical negligence victims."
    @@ "with_tail" :> <<32, 121, 101, 97, 114, 115, 32, 111, 102, 32, 101, 120, 112, 101, 114, 105, 101, 110, 99, 101, 44, 32, 119, 101, 32, 104, 97, 118, 101, 32, 115, 117, 99, 99, 101, 115, 115, 102, 117, 108, 108, 121, 32, 114, 101, 112, 114, 101, 115, 101, 110, 116, 101, 100, 32, 110, 117, 109, 101, 114, 111, 117, 115, 32, 109, 101, 100, 105, 99, 97, 108, 32, 110, 101, 103, 108, 105, 103, 101, 110, 99, 101, 32, 118, 105, 99, 116, 105, 109, 115, 46>>
    \* " Our team maintains an impressive "
    @@ "success" :> <<32, 79, 117, 114, 32, 116, 101, 97, 109, 32, 109, 97, 105, 110, 116, 97, 105, 110, 115, 32, 97, 110, 32, 105, 109, 112, 114, 101, 115, 115, 105, 118, 101, 32>>
    \* "% success rate."
    @@ "success_tail" :> <<37, 32, 115, 117, 99, 99, 101, 115, 115, 32, 114, 97, 116, 101, 46>>

\* The phrases of _generate_specializations_paragraph.
specs_text ==
    \* "We handle all types of medical negligence and malpractice cases, providing expert legal representation for victims of medical errors."
    "fallback" :> <<87, 101, 32, 104, 97, 110, 100, 108, 101, 32, 97, 108, 108, 32, 116, 121, 112, 101, 115, 32, 111, 102, 32, 109, 101, 100, 105, 99, 97, 108, 32, 110, 101, 103, 108, 105, 103, 101, 110, 99, 101, 32, 97, 110, 100, 32, 109, 97, 108, 112, 114, 97, 99, 116, 105, 99, 101, 32, 99, 97, 115, 101, 115, 44, 32, 112, 114, 111, 118, 105, 100, 105, 110, 103, 32, 101, 120, 112, 101, 114, 116, 32, 108, 101, 103, 97, 108, 32, 114, 101, 112, 114, 101, 115, 101, 110, 116, 97, 116, 105, 111, 110, 32, 102, 111, 114, 32, 118, 105, 99, 116, 105, 109, 115, 32, 111, 102, 32, 109, 101, 100, 105, 99, 97, 108, 32, 101, 114, 114, 111, 114, 115, 46>>
    \* "Our practice areas include "
    @@ "include" :> <<79, 117, 114, 32, 112, 114, 97, 99, 116, 105, 99, 101, 32, 97, 114, 101, 97, 115, 32, 105, 110, 99, 108, 117, 100, 101, 32>>
    \* ", and "
    @@ "and" :> <<44, 32, 97, 110, 100, 32>>
    \* "We understand the complex medical and legal issues involved in these cases and work diligently to secure the compensation our clients deserve for their injuries and suffering."
    @@ "tail" :> <<87, 101, 32, 117, 110, 100, 101, 114, 115, 116, 97, 110, 100, 32, 116, 104, 101, 32, 99, 111, 109, 112, 108, 101, 120, 32, 109, 101, 100, 105, 99, 97, 108, 32, 97, 110, 100, 32, 108, 101, 103, 97, 108, 32, 105, 115, 115, 117, 101, 115, 32, 105, 110, 118, 111, 108, 118, 101, 100, 32, 105, 110, 32, 116, 104, 101, 115, 101, 32, 99, 97, 115, 101, 115, 32, 97, 110, 100, 32, 119, 111, 114, 107, 32, 100, 105, 108, 105, 103, 101, 110, 116, 108, 121, 32, 116, 111, 32, 115, 101, 99, 117, 114, 101, 32, 116, 104, 101, 32, 99, 111, 109, 112, 101, 110, 115, 97, 116, 105, 111, 110, 32, 111, 117, 114, 32, 99, 108, 105, 101, 110, 116, 115, 32, 100, 101, 115, 101, 114, 118, 101, 32, 102, 111, 114, 32, 116, 104, 101, 105, 114, 32, 105, 110, 106, 117, 114, 105, 101, 115, 32, 97, 110, 100, 32, 115, 117, 102, 102, 101, 114, 105, 110, 103, 46>>

\* The phrases of _generate_experience_paragraph.
exp_text ==
    \* "Our experienced team has successfully handled over "
    "cases" :> <<79, 117, 114, 32, 101, 120, 112, 101, 114, 105, 101, 110, 99, 101, 100, 32, 116, 101, 97, 109, 32, 104, 97, 115, 32, 115, 117, 99, 99, 101, 115, 115, 102, 117, 108, 108, 121, 32, 104, 97, 110, 100, 108, 101, 100, 32, 111, 118, 101, 114, 32>>
    \* " medical negligence cases"
    @@ "cases_tail" :> <<32, 109, 101, 100, 105, 99, 97, 108, 32, 110, 101, 103, 108, 105, 103, 101, 110, 99, 101, 32, 99, 97, 115, 101, 115>>
    \* "We have received "
    @@ "received" :> <<87, 101, 32, 104, 97, 118, 101, 32, 114, 101, 99, 101, 105, 118, 101, 100, 32>>
    \* " professional awards and recognitions"
    @@ "awards_tail" :> <<32, 112, 114, 111, 102, 101, 115, 115, 105, 111, 110, 97, 108, 32, 97, 119, 97, 114, 100, 115, 32, 97, 110, 100, 32, 114, 101, 99, 111, 103, 110, 105, 116, 105, 111, 110, 115>>
    \* "Our lawyers hold specialist accreditations in personal injury and medical negligence law"
    @@ "accreds" :> <<79, 117, 114, 32, 108, 97, 119, 121, 101, 114, 115, 32, 104, 111, 108, 100, 32, 115, 112, 101, 99, 105, 97, 108, 105, 115, 116, 32, 97, 99, 99, 114, 101, 100, 105, 116, 97, 116, 105, 111, 110, 115, 32, 105, 110, 32, 112, 101, 114, 115, 111, 110, 97, 108, 32, 105, 110, 106, 117, 114, 121, 32, 97, 110, 100, 32, 109, 101, 100, 105, 99, 97, 108, 32, 110, 101, 103, 108, 105, 103, 101, 110, 99, 101, 32, 108, 97, 119>>
    \* "Our team of "
    @@ "team" :> <<79, 117, 114, 32, 116, 101, 97, 109, 32, 111, 102, 32>>
    \* " dedicated legal professionals brings diverse expertise to every case"
    @@ "team_tail" :> <<32, 100, 101, 100, 105, 99, 97, 116, 101, 100, 32, 108, 101, 103, 97, 108, 32, 112, 114, 111, 102, 101, 115, 115, 105, 111, 110, 97, 108, 115, 32, 98, 114, 105, 110, 103, 115, 32, 100, 105, 118, 101, 114, 115, 101, 32, 101, 120, 112, 101, 114, 116, 105, 115, 101, 32, 116, 111, 32, 101, 118, 101, 114, 121, 32, 99, 97, 115, 101>>
    \* "Our experienced legal team is dedicated to providing exceptional representation for medical negligence victims. We stay current with the latest developments in medical malpractice law to best serve our clients."
    @@ "fallback" :> <<79, 117, 114, 32, 101, 120, 112, 101, 114, 105, 101, 110, 99, 101, 100, 32, 108, 101, 103, 97, 108, 32, 116, 101, 97, 109, 32, 105, 115, 32, 100, 101, 100, 105, 99, 97, 116, 101, 100, 32, 116, 111, 32, 112, 114, 111, 118, 105, 100, 105, 110, 103, 32, 101, 120, 99, 101, 112, 116, 105, 111, 110, 97, 108, 32, 114, 101, 112, 114, 101, 115, 101, 110, 116, 97, 116, 105, 111, 110, 32, 102, 111, 114, 32, 109, 101, 100, 105, 99, 97, 108, 32, 110, 101, 103, 108, 105, 103, 101, 110, 99, 101, 32, 118, 105, 99, 116, 105, 109, 115, 46, 32, 87, 101, 32, 115, 116, 97, 121, 32, 99, 117, 114, 114, 101, 110, 116, 32, 119, 105, 116, 104, 32, 116, 104, 101, 32, 108, 97, 116, 101, 115, 116, 32, 100, 101, 118, 101, 108, 111, 112, 109, 101, 110, 116, 115, 32, 105, 110, 32, 109, 101, 100, 105, 99, 97, 108, 32, 109, 97, 108, 112, 114, 97, 99, 116, 105, 99, 101, 32, 108, 97, 119, 32, 116, 111, 32, 98, 101, 115, 116, 32, 115, 101, 114, 118, 101, 32, 111, 117, 114, 32, 99, 108, 105, 101, 110, 116, 115, 46>>

\* The phrases of _generate_call_to_action.
cta_text ==
    \* "If you or a loved one has been a victim of medical negligence, don't wait to seek legal advice. "
    "head" :> <<73, 102, 32, 121, 111, 117, 32, 111, 114, 32, 97, 32, 108, 111, 118, 101, 100, 32, 111, 110, 101, 32, 104, 97, 115, 32, 98, 101, 101, 110, 32, 97, 32, 118, 105, 99, 116, 105, 109, 32, 111, 102, 32, 109, 101, 100, 105, 99, 97, 108, 32, 110, 101, 103, 108, 105, 103, 101, 110, 99, 101, 44, 32, 100, 111, 110, 39, 116, 32, 119, 97, 105, 116, 32, 116, 111, 32, 115, 101, 101, 107, 32, 108, 101, 103, 97, 108, 32, 97, 100, 118, 105, 99, 101, 46, 32>>
    \* "Contact "
    @@ "contact" :> <<67, 111, 110, 116, 97, 99, 116, 32>>
    \* " today for a free, confidential consultation. "
    @@ "free_tail" :> <<32, 116, 111, 100, 97, 121, 32, 102, 111, 114, 32, 97, 32, 102, 114, 101, 101, 44, 32, 99, 111, 110, 102, 105, 100, 101, 110, 116, 105, 97, 108, 32, 99, 111, 110, 115, 117, 108, 116, 97, 116, 105, 111, 110, 46, 32>>
    \* " today to discuss your case. "
    @@ "case_tail" :> <<32, 116, 111, 100, 97, 121, 32, 116, 111, 32, 100, 105, 115, 99, 117, 115, 115, 32, 121, 111, 117, 114, 32, 99, 97, 115, 101, 46, 32>>
    \* "We'll review your situation, explain your legal options, and help you understand your rights. "
    @@ "review" :> <<87, 101, 39, 108, 108, 32, 114, 101, 118, 105, 101, 119, 32, 121, 111, 117, 114, 32, 115, 105, 116, 117, 97, 116, 105, 111, 110, 44, 32, 101, 120, 112, 108, 97, 105, 110, 32, 121, 111, 117, 114, 32, 108, 101, 103, 97, 108, 32, 111, 112, 116, 105, 111, 110, 115, 44, 32, 97, 110, 100, 32, 104, 101, 108, 112, 32, 121, 111, 117, 32, 117, 110, 100, 101, 114, 115, 116, 97, 110, 100, 32, 121, 111, 117, 114, 32, 114, 105, 103, 104, 116, 115, 46, 32>>
    \* "Let our experienced "
    @@ "let" :> <<76, 101, 116, 32, 111, 117, 114, 32, 101, 120, 112, 101, 114, 105, 101, 110, 99, 101, 100, 32>>
    \* " medical negligence lawyers fight for the justice and compensation you deserve."
    @@ "let_tail" :> <<32, 109, 101, 100, 105, 99, 97, 108, 32, 110, 101, 103, 108, 105, 103, 101, 110, 99, 101, 32, 108, 97, 119, 121, 101, 114, 115, 32, 102, 105, 103, 104, 116, 32, 102, 111, 114, 32, 116, 104, 101, 32, 106, 117, 115, 116, 105, 99, 101, 32, 97, 110, 100, 32, 99, 111, 109, 112, 101, 110, 115, 97, 116, 105, 111, 110, 32, 121, 111, 117, 32, 100, 101, 115, 101, 114, 118, 101, 46>>
    \* "Let our experienced medical negligence lawyers fight for the justice and compensation you deserve."
    @@ "let_no_city" :> <<76, 101, 116, 32, 111, 117, 114, 32, 101, 120, 112, 101, 114, 105, 101, 110, 99, 101, 100, 32, 109, 101, 100, 105, 99, 97, 108, 32, 110, 101, 103, 108, 105, 103, 101, 110, 99, 101, 32, 108, 97, 119, 121, 101, 114, 115, 32, 102, 105, 103, 104, 116, 32, 102, 111, 114, 32, 116, 104, 101, 32, 106, 117, 115, 116, 105, 99, 101, 32, 97, 110, 100, 32, 99, 111, 109, 112, 101, 110, 115, 97, 116, 105, 111, 110, 32, 121, 111, 117, 32, 100, 101, 115, 101, 114, 118, 101, 46>>

\* Values of the records the generators are called on.
sample_value ==
    \* "Smith & Co"
    "firm_smith" :> <<83, 109, 105, 116, 104, 32, 38, 32, 67, 111>>
    \* "Sydney"
    @@ "city_sydney" :> <<83, 121, 100, 110, 101, 121>>
    \* "New South Wales"
    @@ "state_nsw" :> <<78, 101, 119, 32, 83, 111, 117, 116, 104, 32, 87, 97, 108, 101, 115>>
    \* "NSW"
    @@ "code_nsw" :> <<78, 83, 87>>
    \* "Lawyer of the Year 2019"
    @@ "award_lawyer" :> <<76, 97, 119, 121, 101, 114, 32, 111, 102, 32, 116, 104, 101, 32, 89, 101, 97, 114, 32, 50, 48, 49, 57>>
    \* "Best Law Firm 2021"
    @@ "award_best" :> <<66, 101, 115, 116, 32, 76, 97, 119, 32, 70, 105, 114, 109, 32, 50, 48, 50, 49>>
    \* "Accredited specialist in personal injury law."
    @@ "accred_specialist" :> <<65, 99, 99, 114, 101, 100, 105, 116, 101, 100, 32, 115, 112, 101, 99, 105, 97, 108, 105, 115, 116, 32, 105, 110, 32, 112, 101, 114, 115, 111, 110, 97, 108, 32, 105, 110, 106, 117, 114, 121, 32, 108, 97, 119, 46>>
    \* "Jane Roe"
    @@ "member_jane" :> <<74, 97, 110, 101, 32, 82, 111, 101>>
    \* "John Doe"
    @@ "member_john" :> <<74, 111, 104, 110, 32, 68, 111, 101>>

\* Separators and single words.
\* ", "
sep_comma ==
    <<44, 32>>
\* " and "
sep_and ==
    <<32, 97, 110, 100, 32>>
\* ". "
sep_stop ==
    <<46, 32>>
\* "."
full_stop ==
    <<46>>
\* "Within 24 hours"
response_within_24 ==
    <<87, 105, 116, 104, 105, 110, 32, 50, 52, 32, 104, 111, 117, 114, 115>>
\* "None"
none_text ==
    <<78, 111, 110, 101>>
\* "\n\n"
\* One line feed between the paragraphs.
para_sep_single == <<10>>

para_sep ==
    <<10, 10>>

(***************************************************************************)
(* Field extractors of LawyerWebsiteScraper.  A page (the parsed document) *)
(* is a record: text is soup.get_text(); the other fields are what the     *)
(* element queries of the named extractor find on it.                      *)
(***************************************************************************)
None == -1                                \* Python None in an Optional[int]
current_year == 2024

NoText == [src |-> "none", len |-> 0]     \* '' or an absent key

\* _extract_specializations: every keyword found in the lower-cased page text
\* (the practice sections are part of that text), title-cased, as a sorted list.
_extract_specializations(page) ==
    LET page_text == lower(page.text)
        specializations ==
            {title(keywords[k]) : k \in {j \in DOMAIN keywords :
                                           Contains(page_text, keywords[j])}}
    IN  sorted(specializations)

\* The local variable specializations of _extract_specializations: the set the
\* titles are added to.
specializations_set(page) ==
    LET page_text == lower(page.text)
    IN  {title(keywords[k]) : k \in {j \in DOMAIN keywords :
                                        Contains(page_text, keywords[j])}}

\* list(S) for a set S of strings: the set is iterated in the order of the
\* hashes, which differ from one interpreter run to the next, so every order
\* is a possible list.
list(S) == {l \in [1..Cardinality(S) -> S] : Range(l) = S}

\* sorted(l) for a list l of strings.
RECURSIVE insert(_, _)
insert(x, l) ==
    IF l = <<>> THEN <<x>>
    ELSE IF StrLess(x, l[1]) THEN <<x>> \o l
    ELSE <<l[1]>> \o insert(x, Tail(l))

\* sorted_list that returns the list as it got it.
sorted_list_unsorted(l) == l

RECURSIVE sorted_list(_)
sorted_list(l) ==
    IF l = <<>> THEN <<>>
    ELSE insert(l[Len(l)], sorted_list(SubSeq(l, 1, Len(l) - 1)))

\* (\d+)\+?\s*years\s*(of\s*)?experience
years_tail ==
    << Opt(<<Lit(w["plus"])>>), WS, Lit(w["years"]), WS, Opt(<<Lit(w["of"]), WS>>),
       Lit(w["experience"]) >>
years_pattern == <<Digits>> \o years_tail
\* (since|established|founded)\s*(\d{4})
since_head == << Alt(<< <<Lit(w["since"])>>, <<Lit(w["established"])>>, <<Lit(w["founded"])>> >>), WS >>
since_pattern == since_head \o <<Digit4>>

\* _extract_years_experience.  Both searches ignore case (re.I); group 1 of the
\* first pattern is the longest digit run from the leftmost match start after
\* which the rest of the pattern matches.
_extract_years_experience(page) ==
    LET text == lower(page.text)
        years_starts == MatchStarts(years_pattern, text)
        since_starts == MatchStarts(since_pattern, text)
    IN  IF years_starts # {}
        THEN LET p == SetMin(years_starts)
                 q == SetMax({e \in Ends(<<Digits>>, 1, text, {p}) :
                                 Ends(years_tail, 1, text, {e}) # {}})
             IN  int(SubSeq(text, p, q - 1))
        ELSE IF since_starts # {}
        THEN LET p == SetMin(since_starts)
                 q == SetMax({e \in Ends(since_head, 1, text, {p}) :
                                 Ends(<<Digit4>>, 1, text, {e}) # {}})
                 year == int(SubSeq(text, q, q + 3))
             IN  IF 1950 <= year /\ year <= current_year
                 THEN current_year - year
                 ELSE None
        ELSE None

\* The alternations of _extract_features.
re_no_win_no_fee ==
    << Alt(<< <<Lit(w["no"]), WS, Lit(w["win"]), WS, Lit(w["no"]), WS, Lit(w["fee"])>>,
              <<Lit(w["no"]), WS, Lit(w["win"]), Opt(<<Lit(w["comma"])>>), WS, Lit(w["no"]), WS,
                Lit(w["fee"])>> >>) >>
re_free_consultation ==
    << Alt(<< <<Lit(w["free"]), WS, Lit(w["consultation"])>>,
              <<Lit(w["complimentary"]), WS, Lit(w["consultation"])>> >>) >>
re_home_visits ==
    << Alt(<< <<Lit(w["home"]), WS, Lit(w["visit"])>>,
              <<Lit(w["visit"]), WS, Lit(w["you"]), WS, Lit(w["at"]), WS, Lit(w["home"])>> >>) >>
re_telehealth ==
    << Alt(<< <<Lit(w["telehealth"])>>,
              <<Lit(w["video"]), WS, Lit(w["consultation"])>>,
              <<Lit(w["zoom"]), WS, Lit(w["meeting"])>> >>) >>
re_24_7 ==
    << Alt(<< <<Lit(w["24"]), WS, Opt(<<Lit(w["slash"])>>), WS, Lit(w["7"])>>,
              <<Lit(w["24"]), WS, Lit(w["hour"])>> >>) >>

\* _extract_features whose home-visit test searches the telehealth pattern.
_extract_features_swapped(page) ==
    LET text == lower(page.text)
    IN  [no_win_no_fee |-> Found(re_no_win_no_fee, text),
         free_consultation |-> Found(re_free_consultation, text),
         home_visits |-> Found(re_telehealth, text),
         telehealth |-> Found(re_telehealth, text),
         available_24_7 |-> Found(re_24_7, text)]

\* _extract_features: one boolean per pattern, searched in the lower-cased text.
\* The key '24_7_available' is the field available_24_7.
_extract_features(page) ==
    LET text == lower(page.text)
    IN  [no_win_no_fee |-> Found(re_no_win_no_fee, text),
         free_consultation |-> Found(re_free_consultation, text),
         home_visits |-> Found(re_home_visits, text),
         telehealth |-> Found(re_telehealth, text),
         available_24_7 |-> Found(re_24_7, text)]

\* _extract_contact_info: the first address found that holds none of the
\* blacklisted words; <<>> when there is none (the key 'email' is not set).
blacklist == <<w["example"], w["test"], w["noreply"]>>
\* _extract_contact_info that compares the address as it is written.
_extract_contact_info_case_sensitive(page) ==
    LET valid_emails ==
            SelectSeq(page.emails,
                      LAMBDA e : ~(\E x \in DOMAIN blacklist :
                                      Contains(e, blacklist[x])))
    IN  IF valid_emails # <<>> THEN valid_emails[1] ELSE <<>>

_extract_contact_info(page) ==
    LET valid_emails ==
            SelectSeq(page.emails,
                      LAMBDA e : ~(\E x \in DOMAIN blacklist :
                                      Contains(lower(e), blacklist[x])))
    IN  IF valid_emails # <<>> THEN valid_emails[1] ELSE <<>>

(***************************************************************************)
(* Pages and records the model draws from                                  *)
(***************************************************************************)
SiteText(n) == [src |-> "site", len |-> n]       \* text found on the website
RecordText(n) == [src |-> "record", len |-> n]   \* text the record came with

EmptyPage ==
    [text |-> sample_text["empty"], description |-> NoText, short_description |-> NoText,
     team_members |-> <<>>, awards |-> <<>>, accreditations |-> <<>>,
     case_studies |-> <<>>, emails |-> <<>>, meta_title |-> NoText,
     meta_description |-> NoText]

FullPage ==
    [text |-> sample_text["full"], description |-> SiteText(300),
     short_description |-> SiteText(120),
     team_members |-> <<"Jane Roe", "John Doe">>,
     awards |-> <<sample_value["award_best"]>>,
     accreditations |-> <<"Accredited specialist in personal injury law.">>,
     case_studies |-> <<"Birth injury settlement">>,
     emails |-> <<email["noreply"], email["info"]>>,
     meta_title |-> SiteText(40), meta_description |-> SiteText(120)]

\* Every page that differs from base in at most one field.
PagesAround(base) ==
    {[base EXCEPT !.text = v] : v \in SampleTexts}
    \cup {[base EXCEPT !.description = v] :
            v \in {NoText, SiteText(150), SiteText(200), SiteText(201), SiteText(300)}}
    \cup {[base EXCEPT !.short_description = v] : v \in {NoText, SiteText(120)}}
    \cup {[base EXCEPT !.team_members = v] : v \in {<<>>, <<"Jane Roe", "John Doe">>}}
    \cup {[base EXCEPT !.awards = v] : v \in {<<>>, <<sample_value["award_best"]>>}}
    \cup {[base EXCEPT !.accreditations = v] :
            v \in {<<>>, <<"Accredited specialist in personal injury law.">>}}
    \cup {[base EXCEPT !.case_studies = v] : v \in {<<>>, <<"Birth injury settlement">>}}
    \cup {[base EXCEPT !.emails = v] :
            v \in {<<>>, <<email["noreply"]>>, <<email["noreply"], email["info"]>>,
                   <<email["example"], email["test"], email["info"]>>}}
    \cup {[base EXCEPT !.meta_title = v] : v \in {NoText, SiteText(40)}}
    \cup {[base EXCEPT !.meta_description = v] : v \in {NoText, SiteText(120)}}

SamplePages == PagesAround(EmptyPage) \cup {FullPage}
BatchPages == {EmptyPage, FullPage}

\* A record as the collection stage hands it over: enrichment fields absent,
\* feature flags unknown (google_places_collector.py:308-309).
EmptyRecord ==
    [website |-> "https://smithlaw.com.au", description |-> NoText,
     short_description |-> NoText, specializations |-> <<>>, team_members |-> <<>>,
     years_experience |-> None, founded_year |-> None, awards |-> <<>>,
     accreditations |-> <<>>, case_studies |-> <<>>, meta_title |-> NoText,
     meta_description |-> NoText, no_win_no_fee |-> "None",
     free_consultation |-> "None", home_visits |-> "None", telehealth |-> "None",
     available_24_7 |-> "None", home_visits_available |-> "None",
     telehealth_available |-> "None", email |-> <<>>,
     average_response_time |-> <<>>]

\* A record that already holds a value in every field.
FullRecord ==
    [website |-> "https://smithlaw.com.au", description |-> RecordText(500),
     short_description |-> RecordText(80),
     specializations |-> <<specialization["birth_title"], specialization["surgical_title"]>>,
     team_members |-> <<"A. Partner">>, years_experience |-> 10,
     founded_year |-> 2009, awards |-> <<sample_value["award_lawyer"]>>,
     accreditations |-> <<"Law society member.">>,
     case_studies |-> <<"Surgical error verdict">>, meta_title |-> RecordText(30),
     meta_description |-> RecordText(100), no_win_no_fee |-> "True",
     free_consultation |-> "True", home_visits |-> "True", telehealth |-> "True",
     available_24_7 |-> "True", home_visits_available |-> "True",
     telehealth_available |-> "True", email |-> email["old"],
     average_response_time |-> response_within_24]

Flags == {"None", "True", "False"}

\* Every record that differs from base in at most one field.
RecordsAround(base) ==
    {[base EXCEPT !.website = v] : v \in {"", "https://smithlaw.com.au"}}
    \cup {[base EXCEPT !.description = v] :
            v \in {NoText, RecordText(150), RecordText(500)}}
    \cup {[base EXCEPT !.short_description = v] : v \in {NoText, RecordText(80)}}
    \cup {[base EXCEPT !.specializations = v] :
            v \in {<<>>, <<specialization["birth_lower"]>>, <<specialization["cerebral_palsy"]>>,
                   <<specialization["birth_title"], specialization["surgical_title"]>>}}
    \cup {[base EXCEPT !.team_members = v] : v \in {<<>>, <<"A. Partner">>}}
    \cup {[base EXCEPT !.years_experience = v] : v \in {None, 10}}
    \cup {[base EXCEPT !.founded_year = v] : v \in {None, 2009}}
    \cup {[base EXCEPT !.awards = v] : v \in {<<>>, <<sample_value["award_lawyer"]>>}}
    \cup {[base EXCEPT !.accreditations = v] : v \in {<<>>, <<"Law society member.">>}}
    \cup {[base EXCEPT !.case_studies = v] : v \in {<<>>, <<"Surgical error verdict">>}}
    \cup {[base EXCEPT !.meta_title = v] : v \in {NoText, RecordText(30)}}
    \cup {[base EXCEPT !.meta_description = v] : v \in {NoText, RecordText(100)}}
    \cup {[base EXCEPT !.no_win_no_fee = v] : v \in Flags}
    \cup {[base EXCEPT !.free_consultation = v] : v \in Flags}
    \cup {[base EXCEPT !.home_visits = v] : v \in Flags}
    \cup {[base EXCEPT !.telehealth = v] : v \in Flags}
    \cup {[base EXCEPT !.available_24_7 = v] : v \in Flags}
    \cup {[base EXCEPT !.home_visits_available = v] : v \in Flags}
    \cup {[base EXCEPT !.telehealth_available = v] : v \in Flags}
    \cup {[base EXCEPT !.email = v] : v \in {<<>>, email["old"]}}
    \cup {[base EXCEPT !.average_response_time = v] : v \in {<<>>, response_within_24}}

SampleRecords == RecordsAround(EmptyRecord) \cup RecordsAround(FullRecord)
BatchRecords == {EmptyRecord, FullRecord, [EmptyRecord EXCEPT !.website = ""]}

\* What requests raises for a timeout, a non-success status and a network
\* error; the text is str(e).
FetchErrors == {"Read timed out", "404 Client Error", "Connection refused"}

MaxRuns == 2       \* calls of enrich_lawyers_with_website_data on the same list
MaxLawyers == 2    \* records in one batch

(***************************************************************************)
(* scrape_website                                                          *)
(***************************************************************************)
\* The dictionary scrape_website starts from: three keys, nothing extracted.
\* keys is the set of keys the dictionary has; a field whose key is absent
\* holds the value .get() would give for it.
data_init(url) ==
    [website |-> url, scraped_successfully |-> FALSE, error |-> "",
     keys |-> {"website", "scraped_successfully", "error"},
     description |-> NoText, short_description |-> NoText,
     specializations |-> <<>>, team_members |-> <<>>, years_experience |-> None,
     awards |-> <<>>, accreditations |-> <<>>, case_studies |-> <<>>,
     features |-> [no_win_no_fee |-> FALSE, free_consultation |-> FALSE,
                   home_visits |-> FALSE, telehealth |-> FALSE,
                   available_24_7 |-> FALSE],
     contact_email |-> <<>>, meta_title |-> NoText, meta_description |-> NoText]

ExtractedKeys ==
    {"description", "short_description", "specializations", "team_members",
     "years_experience", "awards", "accreditations", "case_studies",
     "testimonials", "features", "contact_info", "social_media", "meta_title",
     "meta_description"}

\* The data.update(...) of scrape_website: every extractor run on the page.
data_update(data, page) ==
    [data EXCEPT
        !.description = page.description,
        !.short_description = page.short_description,
        !.specializations = _extract_specializations(page),
        !.team_members = page.team_members,
        !.years_experience = _extract_years_experience(page),
        !.awards = page.awards,
        !.accreditations = page.accreditations,
        !.case_studies = page.case_studies,
        !.features = _extract_features(page),
        !.contact_email = _extract_contact_info(page),
        !.meta_title = page.meta_title,
        !.meta_description = page.meta_description,
        !.scraped_successfully = TRUE,
        !.keys = @ \cup ExtractedKeys]

\* data_update tabulated over the pages of the model (the empty URL stands for
\* the one the caller passes).
Extraction == [page \in SamplePages \cup BatchPages |-> data_update(data_init(""), page)]

\* scrape_website whose exception handler does not record the cause.
scrape_website_no_cause(url, response) ==
    IF response.ok
    THEN [Extraction[response.page] EXCEPT !.website = url]
    ELSE data_init(url)

\* scrape_website(url), given what the GET of url did: response.ok with the
\* page, or a requests.RequestException with the text response.error.
scrape_website(url, response) ==
    IF response.ok
    THEN [Extraction[response.page] EXCEPT !.website = url]
    ELSE [data_init(url) EXCEPT !.error = response.error]

(***************************************************************************)
(* The merge of enrich_lawyers_with_website_data, field by field           *)
(***************************************************************************)
\* The length test of merge_description taken as "at least 200".
merge_description_from_200(lawyer, website_data) ==
    IF website_data.description.len > 0 /\ website_data.description.len >= 200
    THEN website_data.description
    ELSE lawyer.description

merge_description(lawyer, website_data) ==
    IF website_data.description.len > 0 /\ website_data.description.len > 200
    THEN website_data.description
    ELSE lawyer.description

merge_short_description(lawyer, website_data) ==
    IF website_data.short_description.len > 0
    THEN website_data.short_description
    ELSE lawyer.short_description

\* set(existing + website_data['specializations'])
combined_set(lawyer, website_data) ==
    Range(lawyer.specializations \o website_data.specializations)

\* list(set(...)): a set of strings is iterated in the order of the hashes,
\* which differ from one interpreter run to the next, so every order of the
\* combined set is a possible list.
merge_specializations(lawyer, website_data) ==
    IF website_data.specializations # <<>>
    THEN LET S == combined_set(lawyer, website_data)
         IN  {l \in [1..Cardinality(S) -> S] : Range(l) = S}
    ELSE {lawyer.specializations}

\* merge_team_members without its test for an empty list.
merge_team_members_always(lawyer, website_data) == website_data.team_members

\* merge_team_members that adds the extracted members to the ones it has.
merge_team_members_extend(lawyer, website_data) ==
    lawyer.team_members \o website_data.team_members

merge_team_members(lawyer, website_data) ==
    IF website_data.team_members # <<>>
    THEN website_data.team_members
    ELSE lawyer.team_members

\* The loop over the other fields: `if website_data.get(field)`.
merge_years_experience(lawyer, website_data) ==
    IF website_data.years_experience # None /\ website_data.years_experience # 0
    THEN website_data.years_experience
    ELSE lawyer.years_experience

\* merge_list_field that fills a field only when the record has none.
merge_list_field_if_missing(old, new) == IF old = <<>> /\ new # <<>> THEN new ELSE old

merge_list_field(old, new) == IF new # <<>> THEN new ELSE old
merge_text_field(old, new) == IF new.len > 0 THEN new ELSE old

\* merge_feature without `if value`: every extracted value is copied.
merge_feature_copy(old, value) == IF value THEN "True" ELSE "False"

\* `if value: lawyer[key] = value`
merge_feature(old, value) == IF value THEN "True" ELSE old

merge_email(lawyer, website_data) ==
    IF website_data.contact_email # <<>> /\ lawyer.email = <<>>
    THEN website_data.contact_email
    ELSE lawyer.email

\* The record after the merge block, with combined the list that
\* list(set(...)) produced.
merge(lawyer, website_data, combined) ==
    IF website_data.scraped_successfully
    THEN [lawyer EXCEPT
            !.description = merge_description(lawyer, website_data),
            !.short_description = merge_short_description(lawyer, website_data),
            !.specializations = combined,
            !.team_members = merge_team_members(lawyer, website_data),
            !.years_experience = merge_years_experience(lawyer, website_data),
            !.awards = merge_list_field(@, website_data.awards),
            !.accreditations = merge_list_field(@, website_data.accreditations),
            !.case_studies = merge_list_field(@, website_data.case_studies),
            !.meta_title = merge_text_field(@, website_data.meta_title),
            !.meta_description = merge_text_field(@, website_data.meta_description),
            !.no_win_no_fee = merge_feature(@, website_data.features.no_win_no_fee),
            !.free_consultation =
                merge_feature(@, website_data.features.free_consultation),
            !.home_visits = merge_feature(@, website_data.features.home_visits),
            !.telehealth = merge_feature(@, website_data.features.telehealth),
            !.available_24_7 = merge_feature(@, website_data.features.available_24_7),
            !.email = merge_email(lawyer, website_data)]
    ELSE lawyer

(***************************************************************************)
(* LawyerDescriptionGenerator: the features paragraph                      *)
(***************************************************************************)
\* `if lawyer_data.get(flag)`: an absent key, None and False are all falsy.
Truthy(flag) == flag = "True"

\* sep.join(parts)
RECURSIVE join(_, _)
join(sep, parts) ==
    IF parts = <<>> THEN <<>>
    ELSE IF Len(parts) = 1 THEN parts[1]
    ELSE parts[1] \o sep \o join(sep, Tail(parts))

\* The features list, in the order of the four tests.
_features_list(lawyer_data) ==
    (IF Truthy(lawyer_data.no_win_no_fee) THEN <<features_text["no_win_no_fee"]>> ELSE <<>>)
    \o (IF Truthy(lawyer_data.free_consultation)
        THEN <<features_text["free_consultation"]>> ELSE <<>>)
    \o (IF Truthy(lawyer_data.home_visits_available)
        THEN <<features_text["home_visits"]>> ELSE <<>>)
    \o (IF Truthy(lawyer_data.telehealth_available)
        THEN <<features_text["telehealth"]>> ELSE <<>>)

_generate_features_paragraph(lawyer_data) ==
    LET features == _features_list(lawyer_data)
        feature_text ==
            IF Len(features) > 1
            THEN join(sep_comma, SubSeq(features, 1, Len(features) - 1))
                    \o sep_and \o features[Len(features)]
            ELSE features[1]
    IN  IF features = <<>> THEN features_text["fallback"]
        ELSE features_text["offer"] \o feature_text \o sep_stop \o features_text["approach"]
             \o (IF lawyer_data.average_response_time # <<>>
                 THEN features_text["response"] \o lower(lawyer_data.average_response_time)
                      \o full_stop
                 ELSE <<>>)

(***************************************************************************)
(* LawyerDescriptionGenerator: the four generators.  The value of the key  *)
(* firm_name is Missing (no such key), PyNone or PyStr(s); a generator     *)
(* returns PyStr(text), or the exception it raised.  Numbers are integers, *)
(* None when unknown; google_rating is held in tenths (45 is 4.5).         *)
(***************************************************************************)
Missing == [is |-> "missing", v |-> <<>>]
PyNone == [is |-> "None", v |-> <<>>]
PyStr(s) == [is |-> "str", v |-> s]
KeyError == [is |-> "KeyError", v |-> <<>>]
TypeError == [is |-> "TypeError", v |-> <<>>]
Raised(x) == x.is \in {"KeyError", "TypeError"}

\* lawyer_data[key]
get_subscript(lawyer_data, key, default) ==
    IF lawyer_data[key] = Missing THEN KeyError ELSE lawyer_data[key]

\* lawyer_data.get(key, default)
get(lawyer_data, key, default) ==
    IF lawyer_data[key] = Missing THEN PyStr(default) ELSE lawyer_data[key]

\* What an f-string prints for the value: f"{firm}"
format(x) == IF x = PyNone THEN none_text ELSE x.v

\* str(n) for an integer n >= 0, as an f-string prints it
RECURSIVE str(_)
str(n) == IF n < 10 THEN <<48 + n>> ELSE str(n \div 10) \o <<48 + (n % 10)>>

\* `if years:` for an Optional[int]: None and 0 are falsy
Nonzero(n) == n # None /\ n # 0

\* The cut that leaves the text as long as it is.
truncate_never(text, limit) == text

\* The cut that keeps limit characters before the dots.
truncate_at_limit(text, limit) ==
    IF Len(text) > limit THEN SubSeq(text, 1, limit) \o meta_text["ellipsis"] ELSE text

\* `if len(text) > limit: text = text[:limit - 3] + "..."`
truncate(text, limit) ==
    IF Len(text) > limit THEN SubSeq(text, 1, limit - 3) \o meta_text["ellipsis"] ELSE text

\* The features list of generate_short_description.
short_features(lawyer_data) ==
    (IF Truthy(lawyer_data.no_win_no_fee) THEN <<short_text["no_win"]>> ELSE <<>>)
    \o (IF Truthy(lawyer_data.free_consultation) THEN <<short_text["free"]>> ELSE <<>>)

\* specs[0] if specs else 'medical negligence'
short_spec(lawyer_data) ==
    IF lawyer_data.specializations # <<>>
    THEN lawyer_data.specializations[1]
    ELSE short_text["medical_negligence"]

\* short_desc as generate_short_description first composes it.
short_description_text(lawyer_data, firm) ==
    LET years == lawyer_data.years_experience
        location == IF lawyer_data.city # <<>> THEN lawyer_data.city
                    ELSE lawyer_data.state_code
        features == short_features(lawyer_data)
        parts ==
            (IF Nonzero(years) THEN <<str(years) \o short_text["years"]>> ELSE <<>>)
            \o <<lower(short_spec(lawyer_data))>>
            \o (IF location # <<>> THEN <<short_text["in"] \o location>> ELSE <<>>)
            \o (IF features # <<>> THEN <<title(join(short_text["bar"], features))>> ELSE <<>>)
    IN  format(firm) \o short_text["dash"] \o join(sep_comma, parts) \o full_stop

\* short_desc as the branch `if len(short_desc) > 200` composes it.
short_description_fallback(lawyer_data, firm) ==
    LET features == short_features(lawyer_data)
    IN  format(firm) \o short_text["dash"] \o title(short_spec(lawyer_data))
        \o short_text["lawyers_in"] \o lawyer_data.city \o sep_stop
        \o (IF features # <<>> THEN title(features[1]) ELSE short_text["expert"])
        \o full_stop

generate_short_description(lawyer_data) ==
    LET firm == get(lawyer_data, "firm_name", default_firm["this_law_firm"])
    IN  IF Raised(firm) THEN firm
        ELSE LET short_desc == short_description_text(lawyer_data, firm)
             IN  IF Len(short_desc) > 200
                 THEN PyStr(short_description_fallback(lawyer_data, firm))
                 ELSE PyStr(short_desc)

\* meta before the cut of generate_meta_description, for a firm name that is
\* a string.
meta_description_text(lawyer_data, firm) ==
    LET years == lawyer_data.years_experience
        success_rate == lawyer_data.success_rate
        parts ==
            <<firm>>
            \o (IF lawyer_data.city # <<>> THEN <<short_text["in"] \o lawyer_data.city>> ELSE <<>>)
            \o (IF Nonzero(years) THEN <<str(years) \o meta_text["yrs"]>> ELSE <<>>)
            \o (IF Nonzero(success_rate) THEN <<str(success_rate) \o meta_text["success"]>>
                ELSE <<>>)
        features ==
            (IF Truthy(lawyer_data.no_win_no_fee) THEN <<meta_text["no_win"]>> ELSE <<>>)
            \o (IF Truthy(lawyer_data.free_consultation) THEN <<meta_text["free"]>> ELSE <<>>)
    IN  join(short_text["bar"], parts)
        \o (IF features # <<>> THEN sep_stop \o join(sep_comma, features) ELSE <<>>)
        \o meta_text["call"]

\* " | ".join(parts) raises TypeError when parts[0], the firm name, is None.
generate_meta_description(lawyer_data) ==
    LET firm == get(lawyer_data, "firm_name", default_firm["meta_firm"])
    IN  IF Raised(firm) THEN firm
        ELSE IF firm = PyNone THEN TypeError
        ELSE PyStr(truncate(meta_description_text(lawyer_data, firm.v), 160))

\* meta_title_text whose generic form starts at 30 characters.
meta_title_text_from_30(lawyer_data, firm) ==
    IF Len(firm) >= 30
    THEN meta_text["title_generic"] \o lawyer_data.city
    ELSE firm \o short_text["dash"] \o lawyer_data.city \o meta_text["space"] \o lawyer_data.state_code

\* title before the cut of generate_meta_title, for a firm name that is a string.
meta_title_text(lawyer_data, firm) ==
    IF Len(firm) > 30
    THEN meta_text["title_generic"] \o lawyer_data.city
    ELSE firm \o short_text["dash"] \o lawyer_data.city \o meta_text["space"] \o lawyer_data.state_code

\* len(firm) raises TypeError when the key firm_name holds None.
generate_meta_title(lawyer_data) ==
    LET firm == get(lawyer_data, "firm_name", default_firm["title_firm"])
    IN  IF Raised(firm) THEN firm
        ELSE IF firm = PyNone THEN TypeError
        ELSE PyStr(truncate(meta_title_text(lawyer_data, firm.v), 60))

\* The intro's list adjectives with the rating test `rating > 4.5`.
intro_adjectives_above_45(lawyer_data) ==
    LET years == lawyer_data.years_experience
        rating == lawyer_data.google_rating
    IN  (IF Nonzero(years) /\ years > 20 THEN <<intro_text["highly_experienced"]>>
         ELSE IF Nonzero(years) /\ years > 10 THEN <<intro_text["experienced"]>>
         ELSE <<>>)
        \o (IF Nonzero(rating) /\ rating > 45 THEN <<intro_text["top_rated"]>>
            ELSE IF Nonzero(rating) /\ rating >= 40 THEN <<intro_text["well_regarded"]>>
            ELSE <<>>)
        \o (IF lawyer_data.awards # <<>> THEN <<intro_text["award_winning"]>> ELSE <<>>)

\* The list adjectives of _generate_intro; ratings are in tenths.
intro_adjectives(lawyer_data) ==
    LET years == lawyer_data.years_experience
        rating == lawyer_data.google_rating
    IN  (IF Nonzero(years) /\ years > 20 THEN <<intro_text["highly_experienced"]>>
         ELSE IF Nonzero(years) /\ years > 10 THEN <<intro_text["experienced"]>>
         ELSE <<>>)
        \o (IF Nonzero(rating) /\ rating >= 45 THEN <<intro_text["top_rated"]>>
            ELSE IF Nonzero(rating) /\ rating >= 40 THEN <<intro_text["well_regarded"]>>
            ELSE <<>>)
        \o (IF lawyer_data.awards # <<>> THEN <<intro_text["award_winning"]>> ELSE <<>>)

_generate_intro(lawyer_data) ==
    LET firm_name == get(lawyer_data, "firm_name", default_firm["this_law_firm"])
        city == lawyer_data.city
        state == lawyer_data.state
        years == lawyer_data.years_experience
        adjectives == intro_adjectives(lawyer_data)
        adjective ==
            IF adjectives # <<>>
            THEN join(sep_comma, SubSeq(adjectives, 1,
                                        IF Len(adjectives) < 2 THEN Len(adjectives) ELSE 2))
            ELSE intro_text["dedicated"]
    IN  IF Raised(firm_name) THEN firm_name
        ELSE PyStr(
            format(firm_name) \o intro_text["is_a"] \o adjective \o intro_text["firm"]
            \o (IF city # <<>> /\ state # <<>>
                THEN intro_text["serving"] \o city \o sep_comma \o state
                ELSE IF city # <<>> THEN intro_text["based"] \o city
                ELSE IF state # <<>> THEN intro_text["serving"] \o state
                ELSE <<>>)
            \o full_stop
            \o (IF Nonzero(years)
                THEN IF Nonzero(lawyer_data.founded_year)
                     THEN intro_text["since"] \o str(lawyer_data.founded_year)
                          \o intro_text["since_tail"]
                     ELSE intro_text["with"] \o str(years) \o intro_text["with_tail"]
                ELSE <<>>)
            \o (IF Nonzero(lawyer_data.success_rate)
                THEN intro_text["success"] \o str(lawyer_data.success_rate)
                     \o intro_text["success_tail"]
                ELSE <<>>))

\* The specializations paragraph with " and " before the last of three or more.
_generate_specializations_paragraph_plain_and(lawyer_data) ==
    LET specs == lawyer_data.specializations
        lowered == [k \in DOMAIN specs |-> lower(specs[k])]
        spec_text ==
            IF Len(specs) = 1 THEN lowered[1]
            ELSE join(sep_comma, SubSeq(lowered, 1, Len(specs) - 1))
                 \o sep_and \o lowered[Len(specs)]
    IN  IF specs = <<>> THEN PyStr(specs_text["fallback"])
        ELSE PyStr(specs_text["include"] \o spec_text \o sep_stop \o specs_text["tail"])

_generate_specializations_paragraph(lawyer_data) ==
    LET specs == lawyer_data.specializations
        lowered == [k \in DOMAIN specs |-> lower(specs[k])]
        spec_text ==
            IF Len(specs) = 1 THEN lowered[1]
            ELSE IF Len(specs) = 2 THEN lowered[1] \o sep_and \o lowered[2]
            ELSE join(sep_comma, SubSeq(lowered, 1, Len(specs) - 1))
                 \o specs_text["and"] \o lowered[Len(specs)]
    IN  IF specs = <<>> THEN PyStr(specs_text["fallback"])
        ELSE PyStr(specs_text["include"] \o spec_text \o sep_stop \o specs_text["tail"])

_generate_experience_paragraph(lawyer_data) ==
    LET awards == lawyer_data.awards
        team == lawyer_data.team_members
        award_text == IF Len(awards) = 1 THEN awards[1]
                      ELSE str(Len(awards)) \o exp_text["awards_tail"]
        parts ==
            (IF Nonzero(lawyer_data.total_cases_handled)
             THEN <<exp_text["cases"] \o str(lawyer_data.total_cases_handled) \o exp_text["cases_tail"]>>
             ELSE <<>>)
            \o (IF awards # <<>> THEN <<exp_text["received"] \o award_text>> ELSE <<>>)
            \o (IF lawyer_data.accreditations # <<>> THEN <<exp_text["accreds"]>> ELSE <<>>)
            \o (IF Len(team) > 1
                THEN <<exp_text["team"] \o str(Len(team)) \o exp_text["team_tail"]>>
                ELSE <<>>)
    IN  IF parts = <<>> THEN PyStr(exp_text["fallback"])
        ELSE PyStr(join(sep_stop, parts) \o full_stop)

_generate_call_to_action(lawyer_data) ==
    LET firm == get(lawyer_data, "firm_name", default_firm["cta_firm"])
        city == lawyer_data.city
    IN  IF Raised(firm) THEN firm
        ELSE PyStr(
            cta_text["head"]
            \o cta_text["contact"] \o format(firm)
            \o (IF Truthy(lawyer_data.free_consultation) THEN cta_text["free_tail"]
                ELSE cta_text["case_tail"])
            \o cta_text["review"]
            \o (IF city # <<>> THEN cta_text["let"] \o city \o cta_text["let_tail"]
                ELSE cta_text["let_no_city"]))

\* The five paragraphs in order; the first exception raised, if any, ends the
\* call; empty paragraphs are left out of the join.
generate_description(lawyer_data) ==
    LET made == << _generate_intro(lawyer_data),
                   _generate_specializations_paragraph(lawyer_data),
                   _generate_experience_paragraph(lawyer_data),
                   PyStr(_generate_features_paragraph(lawyer_data)),
                   _generate_call_to_action(lawyer_data) >>
        raised == {k \in DOMAIN made : Raised(made[k])}
        paragraphs == SelectSeq([k \in DOMAIN made |-> made[k].v],
                                LAMBDA p : p # <<>>)
    IN  IF raised # {} THEN made[SetMin(raised)]
        ELSE PyStr(join(para_sep, paragraphs))

(***************************************************************************)
(* enrich_lawyers_with_website_data as a state machine                     *)
(***************************************************************************)
VARIABLES
    lawyers,        \* the list passed in; its dictionaries are updated in place
    enriched,       \* the list being returned: indices into lawyers (the same objects)
    i,              \* the position of the loop in lawyers
    pc,             \* "loop" while the function runs, "done" once it returned
    website_data,   \* what the last scrape_website call returned
    last,           \* the last iteration: its kind, its record's index and the
                    \* record as it was when the iteration began
    outcomes,       \* the kind of every iteration of this call so far
    run,            \* how many times the function was called on this list
    call,           \* a call of one function on its own: its name, its argument
                    \* and what it returned
    gets,           \* the HTTP GETs of a scrape_website call followed step by
                    \* step: the URL of each and whether it succeeded
    description_parts   \* the list description_parts of that call

vars ==
    <<lawyers, enriched, i, pc, website_data, last, outcomes, run, call, gets,
      description_parts>>

NoIteration == [kind |-> "none", idx |-> 0, before |-> EmptyRecord]
NoCall == [fn |-> "none", arg |-> <<>>, result |-> <<>>]

Start(ls) ==
    /\ lawyers = ls
    /\ enriched = <<>>
    /\ i = 1
    /\ pc = "loop"
    /\ website_data = data_init("")
    /\ last = NoIteration
    /\ outcomes = <<>>
    /\ run = 1
    /\ call = NoCall
    /\ gets = <<>>
    /\ description_parts = <<>>

\* One record, drawn widely.
Init == \E r \in SampleRecords : Start(<<r>>)

\* A batch of up to MaxLawyers records.
InitBatch ==
    \E n \in 1..MaxLawyers : \E ls \in [1..n -> BatchRecords] : Start(ls)

\* The iteration of a record without website that leaves the record out of
\* the list returned.
NoWebsite_dropped ==
    /\ pc = "loop"
    /\ i <= Len(lawyers)
    /\ lawyers[i].website = ""
    /\ i' = i + 1
    /\ last' = [kind |-> "skip", idx |-> i, before |-> lawyers[i]]
    /\ outcomes' = Append(outcomes, "skip")
    /\ UNCHANGED <<lawyers, enriched, pc, website_data, run, call, gets, description_parts>>

\* `if not website: enriched.append(lawyer); continue`
NoWebsite ==
    /\ pc = "loop"
    /\ i <= Len(lawyers)
    /\ lawyers[i].website = ""
    /\ enriched' = Append(enriched, i)
    /\ i' = i + 1
    /\ last' = [kind |-> "skip", idx |-> i, before |-> lawyers[i]]
    /\ outcomes' = Append(outcomes, "skip")
    /\ UNCHANGED <<lawyers, pc, website_data, run, call, gets, description_parts>>

\* The scraping iteration on a list whose records of one website are one
\* dictionary: the merge shows in each of them.
Scrape_aliased(response) ==
    /\ pc = "loop"
    /\ i <= Len(lawyers)
    /\ lawyers[i].website # ""
    /\ LET data == scrape_website(lawyers[i].website, response)
       IN  /\ website_data' = data
           /\ \E combined \in merge_specializations(lawyers[i], data) :
                lawyers' = [k \in DOMAIN lawyers |->
                              IF lawyers[k].website = lawyers[i].website
                              THEN merge(lawyers[i], data, combined)
                              ELSE lawyers[k]]
    /\ enriched' = Append(enriched, i)
    /\ i' = i + 1
    /\ last' = [kind |-> IF response.ok THEN "merged" ELSE "failed",
                idx |-> i, before |-> lawyers[i]]
    /\ outcomes' = Append(outcomes, IF response.ok THEN "merged" ELSE "failed")
    /\ UNCHANGED <<pc, run, call, gets, description_parts>>

\* One iteration that scrapes: scrape_website, the merge, the append.
Scrape(response) ==
    /\ pc = "loop"
    /\ i <= Len(lawyers)
    /\ lawyers[i].website # ""
    /\ LET data == scrape_website(lawyers[i].website, response)
       IN  /\ website_data' = data
           /\ \E combined \in merge_specializations(lawyers[i], data) :
                lawyers' = [lawyers EXCEPT ![i] = merge(lawyers[i], data, combined)]
    /\ enriched' = Append(enriched, i)
    /\ i' = i + 1
    /\ last' = [kind |-> IF response.ok THEN "merged" ELSE "failed",
                idx |-> i, before |-> lawyers[i]]
    /\ outcomes' = Append(outcomes, IF response.ok THEN "merged" ELSE "failed")
    /\ UNCHANGED <<pc, run, call, gets, description_parts>>

FetchFailed(error) == Scrape([ok |-> FALSE, error |-> error, page |-> EmptyPage])
FetchOk(page) == Scrape([ok |-> TRUE, error |-> "", page |-> page])

\* `return enriched`
Return ==
    /\ pc = "loop"
    /\ i > Len(lawyers)
    /\ pc' = "done"
    /\ UNCHANGED <<lawyers, enriched, i, website_data, last, outcomes, run, call, gets, description_parts>>

\* The function is called again on the list it returned.
Reenrich ==
    /\ pc = "done"
    /\ run < MaxRuns
    /\ run' = run + 1
    /\ pc' = "loop"
    /\ i' = 1
    /\ enriched' = <<>>
    /\ website_data' = data_init("")
    /\ last' = NoIteration
    /\ outcomes' = <<>>
    /\ UNCHANGED <<lawyers, call, gets, description_parts>>

Next ==
    \/ NoWebsite
    \/ \E error \in FetchErrors : FetchFailed(error)
    \/ \E page \in SamplePages : FetchOk(page)
    \/ Return
    \/ Reenrich

Spec == Init /\ [][Next]_vars

NextBatch ==
    \/ NoWebsite
    \/ \E error \in FetchErrors : FetchFailed(error)
    \/ \E page \in BatchPages : FetchOk(page)
    \/ Return

SpecBatch == InitBatch /\ [][NextBatch]_vars

(***************************************************************************)
(* The extractors called on their own.  A page text is a list of phrases,  *)
(* joined by ". "; what each phrase says is written next to it, so that    *)
(* what an extractor returns for the text can be compared with what the    *)
(* text says.                                                              *)
(***************************************************************************)
MaxPhrases == 2

\* years: the N of an "N years of experience" phrase; since: the year of a
\* since/established/founded phrase (the pattern reads four digits of 19999);
\* features: the keys of _extract_features whose pattern the phrase holds;
\* keyword: 1 when the phrase holds a keyword of _extract_specializations.
Says(text, years, since, features, keyword) ==
    [text |-> text, years |-> years, since |-> since, features |-> features,
     keyword |-> keyword]

Phrases ==
    << Says(
            \* "with over 22+ years experience"
            <<119, 105, 116, 104, 32, 111, 118, 101, 114, 32, 50, 50, 43, 32, 121, 101, 97, 114, 115, 32, 101, 120, 112, 101, 114, 105, 101, 110, 99, 101>>, 22, None, {}, 0),
       Says(
            \* "7 Years of Experience"
            <<55, 32, 89, 101, 97, 114, 115, 32, 111, 102, 32, 69, 120, 112, 101, 114, 105, 101, 110, 99, 101>>, 7, None, {}, 0),
       Says(
            \* "Established 1999"
            <<69, 115, 116, 97, 98, 108, 105, 115, 104, 101, 100, 32, 49, 57, 57, 57>>, None, 1999, {}, 0),
       Says(
            \* "since 1949"
            <<115, 105, 110, 99, 101, 32, 49, 57, 52, 57>>, None, 1949, {}, 0),
       Says(
            \* "Founded 2024"
            <<70, 111, 117, 110, 100, 101, 100, 32, 50, 48, 50, 52>>, None, 2024, {}, 0),
       Says(
            \* "since 19999"
            <<115, 105, 110, 99, 101, 32, 49, 57, 57, 57, 57>>, None, 1999, {}, 0),
       Says(
            \* "No Win, No Fee"
            <<78, 111, 32, 87, 105, 110, 44, 32, 78, 111, 32, 70, 101, 101>>, None, None, {"no_win_no_fee"}, 0),
       Says(
            \* "complimentary consultation"
            <<99, 111, 109, 112, 108, 105, 109, 101, 110, 116, 97, 114, 121, 32, 99, 111, 110, 115, 117, 108, 116, 97, 116, 105, 111, 110>>, None, None, {"free_consultation"}, 0),
       Says(
            \* "we visit you at home"
            <<119, 101, 32, 118, 105, 115, 105, 116, 32, 121, 111, 117, 32, 97, 116, 32, 104, 111, 109, 101>>, None, None, {"home_visits"}, 0),
       Says(
            \* "video consultation"
            <<118, 105, 100, 101, 111, 32, 99, 111, 110, 115, 117, 108, 116, 97, 116, 105, 111, 110>>, None, None, {"telehealth"}, 0),
       Says(
            \* "24 hour helpline"
            <<50, 52, 32, 104, 111, 117, 114, 32, 104, 101, 108, 112, 108, 105, 110, 101>>, None, None, {"available_24_7"}, 0),
       Says(
            \* "Birth Injury"
            <<66, 105, 114, 116, 104, 32, 73, 110, 106, 117, 114, 121>>, None, None, {}, 1),
       Says(
            \* "misdiagnosis claims"
            <<109, 105, 115, 100, 105, 97, 103, 110, 111, 115, 105, 115, 32, 99, 108, 97, 105, 109, 115>>, None, None, {}, 1),
       Says(
            \* "years of practice"
            <<121, 101, 97, 114, 115, 32, 111, 102, 32, 112, 114, 97, 99, 116, 105, 99, 101>>, None, None, {}, 0) >>

PhraseLists == UNION {[1..n -> DOMAIN Phrases] : n \in 0..MaxPhrases}

\* soup.get_text() of a page that holds the phrases of arg, and the page.
PhraseText(arg) == join(sep_stop, [k \in DOMAIN arg |-> Phrases[arg[k]].text])
PhrasePage(arg) == [EmptyPage EXCEPT !.text = PhraseText(arg)]

\* What the enrichment variables hold while no list is being enriched.
NotEnriching ==
    /\ lawyers = <<>>
    /\ enriched = <<>>
    /\ i = 1
    /\ pc = "done"
    /\ website_data = data_init("")
    /\ last = NoIteration
    /\ outcomes = <<>>
    /\ run = 1
    /\ gets = <<>>
    /\ description_parts = <<>>

enrichment ==
    <<lawyers, enriched, i, pc, website_data, last, outcomes, run, gets,
      description_parts>>

InitExtract ==
    /\ NotEnriching
    /\ \E arg \in PhraseLists : call = [fn |-> "input", arg |-> arg, result |-> <<>>]

\* self._extract_years_experience(soup)
ExtractYears ==
    /\ call.fn = "input"
    /\ call' = [call EXCEPT !.fn = "_extract_years_experience",
                            !.result = _extract_years_experience(PhrasePage(call.arg))]
    /\ UNCHANGED enrichment

\* self._extract_features(soup)
ExtractFeatures ==
    /\ call.fn = "input"
    /\ call' = [call EXCEPT !.fn = "_extract_features",
                            !.result = _extract_features(PhrasePage(call.arg))]
    /\ UNCHANGED enrichment

\* scrape_website run twice on the same page, each run in an interpreter of its
\* own: the result of a run is what data.update(...) gives, with the
\* specializations sorted from the order in which that run iterates the set.
scrape_website_run(data, order) ==
    [data EXCEPT !.specializations = sorted_list(order)]

ScrapeTwice ==
    /\ call.fn = "input"
    /\ LET page == PhrasePage(call.arg)
           data == data_update(data_init(""), page)
           orders == list(specializations_set(page))
       IN  \E first, second \in orders :
              call' = [call EXCEPT !.fn = "scrape_website",
                                   !.result = << scrape_website_run(data, first),
                                                 scrape_website_run(data, second) >>]
    /\ UNCHANGED enrichment

NextExtract ==
    \/ ExtractYears
    \/ ExtractFeatures
    \/ ScrapeTwice

SpecExtract == InitExtract /\ [][NextExtract]_vars

(***************************************************************************)
(* The generators called on their own, on records that miss any of the     *)
(* fields the generators read.                                             *)
(***************************************************************************)
MaxFirmName == 180
MaxCity == 40
MaxAbsent == 2

\* A string of n letters.
Name(n) == [k \in 1..n |-> 65 + (k % 26)]

\* The fields the generators read, every one of them absent.
EmptyData ==
    [firm_name |-> Missing, city |-> <<>>, state |-> <<>>, state_code |-> <<>>,
     years_experience |-> None, founded_year |-> None, google_rating |-> None,
     success_rate |-> None, total_cases_handled |-> None,
     specializations |-> <<>>, awards |-> <<>>, accreditations |-> <<>>,
     team_members |-> <<>>, no_win_no_fee |-> "None", free_consultation |-> "None",
     home_visits_available |-> "None", telehealth_available |-> "None",
     average_response_time |-> <<>>]

\* The same fields, every one of them present.
FullData ==
    [firm_name |-> PyStr(sample_value["firm_smith"]), city |-> sample_value["city_sydney"], state |-> sample_value["state_nsw"],
     state_code |-> sample_value["code_nsw"], years_experience |-> 25, founded_year |-> 1999,
     google_rating |-> 47, success_rate |-> 95, total_cases_handled |-> 500,
     specializations |-> <<specialization["birth_title"], specialization["surgical_title"], specialization["cerebral_palsy"]>>,
     awards |-> <<sample_value["award_best"]>>, accreditations |-> <<sample_value["accred_specialist"]>>,
     team_members |-> <<sample_value["member_jane"], sample_value["member_john"]>>, no_win_no_fee |-> "True",
     free_consultation |-> "True", home_visits_available |-> "True",
     telehealth_available |-> "True", average_response_time |-> response_within_24]

\* A record of a mid-sized firm: fifteen years, two practice areas, the state
\* given by its code, a free consultation and nothing else.
ExampleData ==
    [EmptyData EXCEPT !.firm_name = PyStr(sample_value["firm_smith"]),
                      !.city = sample_value["city_sydney"],
                      !.state = sample_value["code_nsw"],
                      !.years_experience = 15, !.founded_year = 2009,
                      !.specializations = <<specialization["birth_title"],
                                            specialization["surgical_title"]>>,
                      !.free_consultation = "True"]

FirmNames ==
    {Missing, PyNone, PyStr(sample_value["firm_smith"])}
    \cup {PyStr(Name(n)) : n \in {0, 30, 31, 35, 70, MaxFirmName}}
Cities == {<<>>, sample_value["city_sydney"], Name(MaxCity)}

\* Every record that differs from base in at most one field.
DataAround(base) ==
    {[base EXCEPT !.firm_name = v] : v \in FirmNames}
    \cup {[base EXCEPT !.city = v] : v \in Cities}
    \cup {[base EXCEPT !.state = v] : v \in {<<>>, sample_value["state_nsw"]}}
    \cup {[base EXCEPT !.state_code = v] : v \in {<<>>, sample_value["code_nsw"]}}
    \cup {[base EXCEPT !.years_experience = v] : v \in {None, 0, 5, 10, 11, 20, 21, 22}}
    \cup {[base EXCEPT !.founded_year = v] : v \in {None, 1999}}
    \cup {[base EXCEPT !.google_rating = v] : v \in {None, 39, 40, 45}}
    \cup {[base EXCEPT !.success_rate = v] : v \in {None, 95}}
    \cup {[base EXCEPT !.total_cases_handled = v] : v \in {None, 500}}
    \cup {[base EXCEPT !.specializations = v] :
            v \in {<<>>, <<specialization["birth_title"]>>, <<specialization["birth_title"], specialization["surgical_title"]>>,
                   <<specialization["birth_title"], specialization["surgical_title"], specialization["cerebral_palsy"]>>,
                   <<specialization["birth_title"], specialization["surgical_title"], specialization["cerebral_palsy"],
                     specialization["birth_lower"]>>}}
    \cup {[base EXCEPT !.awards = v] : v \in {<<>>, <<sample_value["award_best"]>>, <<sample_value["award_best"], sample_value["award_best"]>>}}
    \cup {[base EXCEPT !.accreditations = v] : v \in {<<>>, <<sample_value["accred_specialist"]>>}}
    \cup {[base EXCEPT !.team_members = v] :
            v \in {<<>>, <<sample_value["member_jane"]>>, <<sample_value["member_jane"], sample_value["member_john"]>>}}
    \cup {[base EXCEPT !.no_win_no_fee = v] : v \in Flags}
    \cup {[base EXCEPT !.free_consultation = v] : v \in Flags}
    \cup {[base EXCEPT !.home_visits_available = v] : v \in Flags}
    \cup {[base EXCEPT !.telehealth_available = v] : v \in Flags}
    \cup {[base EXCEPT !.average_response_time = v] : v \in {<<>>, response_within_24}}

\* Records that differ in what takes room in a line: the names, the years and
\* the two features a short line shows.
DataOfLengths ==
    {[FullData EXCEPT !.firm_name = firm, !.city = city, !.state_code = code,
                      !.years_experience = years, !.no_win_no_fee = no_win,
                      !.free_consultation = free] :
        firm \in FirmNames, city \in Cities, code \in {<<>>, sample_value["code_nsw"]},
        years \in {None, 22}, no_win \in {"None", "True"}, free \in {"None", "True"}}

\* FullData without the fields of absent, and the records in which at most
\* MaxAbsent fields are absent or at most MaxAbsent fields are present.
DataWithout(absent) ==
    [f \in DOMAIN FullData |-> IF f \in absent THEN EmptyData[f] ELSE FullData[f]]
DataOfSubsets ==
    {DataWithout(absent) :
        absent \in {S \in SUBSET DOMAIN FullData :
                       \/ Cardinality(S) <= MaxAbsent
                       \/ Cardinality(DOMAIN FullData \ S) <= MaxAbsent}}

SampleData ==
    DataAround(EmptyData) \cup DataAround(FullData) \cup DataOfLengths
    \cup DataOfSubsets \cup {ExampleData}

InitGenerate ==
    /\ NotEnriching
    /\ \E lawyer_data \in SampleData :
          call = [fn |-> "input", arg |-> lawyer_data, result |-> Missing]

Generate(fn, result) ==
    /\ call.fn = "input"
    /\ call' = [call EXCEPT !.fn = fn, !.result = result]
    /\ UNCHANGED enrichment

GenerateDescription == Generate("generate_description", generate_description(call.arg))
GenerateIntro == Generate("_generate_intro", _generate_intro(call.arg))
GenerateSpecializationsParagraph ==
    Generate("_generate_specializations_paragraph",
             _generate_specializations_paragraph(call.arg))
GenerateFeaturesParagraph ==
    Generate("_generate_features_paragraph",
             PyStr(_generate_features_paragraph(call.arg)))
GenerateShortDescription ==
    Generate("generate_short_description", generate_short_description(call.arg))
GenerateMetaTitle == Generate("generate_meta_title", generate_meta_title(call.arg))
GenerateMetaDescription ==
    Generate("generate_meta_description", generate_meta_description(call.arg))

NextGenerate ==
    \/ GenerateDescription
    \/ GenerateIntro
    \/ GenerateSpecializationsParagraph
    \/ GenerateFeaturesParagraph
    \/ GenerateShortDescription
    \/ GenerateMetaTitle
    \/ GenerateMetaDescription

SpecGenerate == InitGenerate /\ [][NextGenerate]_vars


(***************************************************************************)
(* run_full_collection: the enrichment followed by                         *)
(* generate_descriptions_for_all                                           *)
(***************************************************************************)
\* The records of the pipeline: what the collection stage knows of the firm
\* (from d) with the fields of a record of the enrichment (from r).  The firm
\* name is a string or is missing.
PipelineRecords ==
    {[f \in {"firm_name", "city", "state", "state_code", "google_rating",
             "success_rate", "total_cases_handled"} |-> d[f]]
        @@ r :
        d \in {EmptyData, FullData},
        r \in {EmptyRecord, FullRecord, [EmptyRecord EXCEPT !.website = ""],
               [FullRecord EXCEPT !.website = ""]}
              \cup {[EmptyRecord EXCEPT !.description = RecordText(n)] :
                       n \in {99, 100}}}

\* The text a generator returned, as a record holds it: measured.
Generated(result) == [src |-> "generated", len |-> Len(result.v)]

\* The description step of generate_descriptions_for_all that synthesizes in
\* every case.
describe_description_always(lawyer) ==
    [lawyer EXCEPT !.description = Generated(generate_description(lawyer))]

\* `if not existing_desc or len(existing_desc) < 100: lawyer['description'] = ...`
describe_description(lawyer) ==
    IF lawyer.description.len = 0 \/ lawyer.description.len < 100
    THEN [lawyer EXCEPT !.description = Generated(generate_description(lawyer))]
    ELSE lawyer

\* The three assignments that follow, keeping a short description the record
\* has.
describe_summaries_if_missing(lawyer) ==
    [lawyer EXCEPT
        !.short_description =
            IF @.len > 0 THEN @ ELSE Generated(generate_short_description(lawyer)),
        !.meta_title = Generated(generate_meta_title(lawyer)),
        !.meta_description = Generated(generate_meta_description(lawyer))]

\* lawyer['short_description'], lawyer['meta_title'], lawyer['meta_description']:
\* none of the three generators reads a field another one wrote.
describe_summaries(lawyer) ==
    [lawyer EXCEPT
        !.short_description = Generated(generate_short_description(lawyer)),
        !.meta_title = Generated(generate_meta_title(lawyer)),
        !.meta_description = Generated(generate_meta_description(lawyer))]

\* One record, handed over by the collection stage.
InitPipeline == \E r \in PipelineRecords : Start(<<r>>)

\* generate_descriptions_for_all(lawyers), called on the list the enrichment
\* returned.
GenerateDescriptionsForAll ==
    /\ pc = "done"
    /\ pc' = "final"
    /\ lawyers' = [k \in DOMAIN lawyers |->
                      describe_summaries(describe_description(lawyers[k]))]
    /\ call' = [fn |-> "generate_descriptions_for_all", arg |-> lawyers,
                result |-> lawyers']
    /\ UNCHANGED <<enriched, i, website_data, last, outcomes, run, gets, description_parts>>

NextPipeline ==
    \/ NoWebsite
    \/ \E error \in FetchErrors : FetchFailed(error)
    \/ \E page \in BatchPages : FetchOk(page)
    \/ Return
    \/ GenerateDescriptionsForAll

SpecPipeline == InitPipeline /\ [][NextPipeline]_vars

(***************************************************************************)
(* scrape_website followed GET by GET: the fetch of the page, the parts of *)
(* the description found on it, the fetch of the about page                *)
(***************************************************************************)
MaxFragments == 2

\* The home page as _extract_description reads it: the lengths of the texts
\* of the elements the selectors match, in the order of the selectors, and
\* whether a link to an about page is found.
HomePages ==
    {[fragments |-> f, about_link |-> a] :
        f \in UNION {[1..n -> {100, 150, 600, 2000}] : n \in 0..MaxFragments},
        a \in BOOLEAN}

\* What the GET of the about page does: a page whose main content has len
\* characters (none when 0), or an exception with the text error.
AboutResponses ==
    {[ok |-> TRUE, len |-> n, error |-> ""] : n \in {0, 400, 1500}}
    \cup {[ok |-> FALSE, len |-> 0, error |-> e] : e \in FetchErrors}

about_url == "https://smithlaw.com.au/about"

InitFetch ==
    /\ lawyers = <<>>
    /\ enriched = <<>>
    /\ i = 1
    /\ pc = "get"
    /\ website_data = data_init(EmptyRecord.website)
    /\ last = NoIteration
    /\ outcomes = <<>>
    /\ run = 1
    /\ \E home \in HomePages :
          call = [fn |-> "scrape_website", arg |-> home, result |-> <<>>]
    /\ gets = <<>>
    /\ description_parts = <<>>

\* `response = self.session.get(url, timeout=15)` raises: the handler records
\* the cause and the call returns.
HomeGetFailed(error) ==
    /\ pc = "get"
    /\ gets' = Append(gets, [url |-> website_data.website, ok |-> FALSE])
    /\ website_data' = [website_data EXCEPT !.error = error]
    /\ pc' = "returned"
    /\ UNCHANGED <<lawyers, enriched, i, last, outcomes, run, call, description_parts>>

\* The GET of the page succeeds and the page is parsed.
HomeGetOk ==
    /\ pc = "get"
    /\ gets' = Append(gets, [url |-> website_data.website, ok |-> TRUE])
    /\ pc' = "extract"
    /\ UNCHANGED <<lawyers, enriched, i, website_data, last, outcomes, run, call,
                   description_parts>>

\* The loop over the selectors: a text is kept when it has more than 100 and
\* fewer than 2000 characters.  Then the search for the about link.
SelectParts ==
    /\ pc = "extract"
    /\ description_parts' =
          LET kept == SelectSeq(call.arg.fragments, LAMBDA n : n > 100 /\ n < 2000)
          IN  [k \in DOMAIN kept |-> [from |-> "home", len |-> kept[k]]]
    /\ pc' = IF call.arg.about_link THEN "about" ELSE "combine"
    /\ UNCHANGED <<lawyers, enriched, i, website_data, last, outcomes, run, call, gets>>

\* _scrape_about_page whose handler lets the exception through: it reaches the
\* handler of scrape_website.
AboutGet_raises(response) ==
    /\ pc = "about"
    /\ gets' = Append(gets, [url |-> about_url, ok |-> response.ok])
    /\ IF response.ok
       THEN /\ description_parts' =
                  IF response.len > 0
                  THEN <<[from |-> "about",
                          len |-> IF response.len > 1000 THEN 1000 ELSE response.len]>>
                       \o description_parts
                  ELSE description_parts
            /\ pc' = "combine"
            /\ UNCHANGED website_data
       ELSE /\ website_data' = [website_data EXCEPT !.error = response.error]
            /\ pc' = "returned"
            /\ UNCHANGED description_parts
    /\ UNCHANGED <<lawyers, enriched, i, last, outcomes, run, call>>

\* about_text = self._scrape_about_page(about_url): the first 1000 characters
\* of the main content, or '' when there is none or when anything was raised;
\* `if about_text: description_parts.insert(0, about_text)`.
AboutGet(response) ==
    /\ pc = "about"
    /\ gets' = Append(gets, [url |-> about_url, ok |-> response.ok])
    /\ description_parts' =
          IF response.ok /\ response.len > 0
          THEN <<[from |-> "about",
                  len |-> IF response.len > 1000 THEN 1000 ELSE response.len]>>
               \o description_parts
          ELSE description_parts
    /\ pc' = "combine"
    /\ UNCHANGED <<lawyers, enriched, i, website_data, last, outcomes, run, call>>

\* The lengths full_description can have, for parts of the given lengths
\* joined by single spaces: a text of more than 1000 characters is cut after
\* its first 1000 at the last space, or not at all when these hold no space,
\* and "..." is added.
description_lengths(parts) ==
    LET joined[k \in 0..Len(parts)] ==
            IF k = 0 THEN 0
            ELSE IF k = 1 THEN parts[1].len
            ELSE joined[k - 1] + 1 + parts[k].len
        total == joined[Len(parts)]
    IN  IF total > 1000 THEN {cut + 3 : cut \in {900, 999, 1000}} ELSE {total}

\* The rest of _extract_description and of data.update(...), and the return.
\* Nothing else is found on the page.
ReturnData ==
    /\ pc = "combine"
    /\ \E n \in description_lengths(description_parts) :
          website_data' =
              data_update(website_data,
                          [EmptyPage EXCEPT !.description =
                              IF n = 0 THEN NoText ELSE SiteText(n)])
    /\ pc' = "returned"
    /\ UNCHANGED <<lawyers, enriched, i, last, outcomes, run, call, gets,
                   description_parts>>

NextFetch ==
    \/ \E error \in FetchErrors : HomeGetFailed(error)
    \/ HomeGetOk
    \/ SelectParts
    \/ \E response \in AboutResponses : AboutGet(response)
    \/ ReturnData

SpecFetch == InitFetch /\ [][NextFetch]_vars
(***************************************************************************)
(* Properties                                                              *)
(***************************************************************************)
Before == last.before                \* the record when the last iteration began
After == lawyers[last.idx]           \* the same record now
Iterated == last.kind # "none"
Merged == last.kind = "merged"       \* the last iteration merged a successful scrape

TextFields == {"description", "short_description", "meta_title", "meta_description"}
ListFields ==
    {"specializations", "team_members", "awards", "accreditations", "case_studies",
     "email", "average_response_time"}
IntFields == {"years_experience", "founded_year"}
FlagFields ==
    {"no_win_no_fee", "free_consultation", "home_visits", "telehealth",
     "available_24_7", "home_visits_available", "telehealth_available"}
FeatureKeys ==
    {"no_win_no_fee", "free_consultation", "home_visits", "telehealth",
     "available_24_7"}
AllFields == TextFields \cup ListFields \cup IntFields \cup FlagFields \cup {"website"}

Populated(r, f) ==
    CASE f \in TextFields -> r[f].len > 0
      [] f \in ListFields -> r[f] # <<>>
      [] f \in IntFields -> r[f] # None
      [] f \in FlagFields -> r[f] # "None"
      [] OTHER -> r[f] # ""

\* C1: merge monotonicity.  Whatever the record and the extraction result, and
\* in every merge of a sequence of merges, a field that held a value before
\* the iteration holds one after it, and a flag that was true is still true.
C1_MergeMonotone ==
    Iterated =>
        \A f \in AllFields :
            /\ Populated(Before, f) => Populated(After, f)
            /\ (f \in FlagFields /\ Before[f] = "True") => After[f] = "True"

\* A second merge into a record with team members, a description and a true
\* flag, of a result that has none of the three.
C1_Witness ==
    /\ Merged
    /\ run = 2
    /\ Before.team_members # <<>> /\ website_data.team_members = <<>>
    /\ Before.description.len > 0 /\ website_data.description.len = 0
    /\ Before.no_win_no_fee = "True" /\ ~website_data.features.no_win_no_fee

\* C2: merge never shortens an already-longer description.  When the record's
\* description is longer than the extracted one, the description after the
\* merge is at least as long as it was.
C2_NeverShortensDescription ==
    (Merged /\ Before.description.len > website_data.description.len)
        => After.description.len >= Before.description.len

\* C3: the feature-flag rule.  After a merge a flag is true when the extracted
\* value is true and is what it was when the extracted value is false; a true
\* flag stays true in every iteration; no iteration makes a flag False.
C3_FeatureFlagRule ==
    Iterated =>
        \A k \in FeatureKeys :
            /\ Before[k] = "True" => After[k] = "True"
            /\ After[k] = "False" => Before[k] = "False"
            /\ Merged =>
                /\ website_data.features[k] => After[k] = "True"
                /\ ~website_data.features[k] => After[k] = Before[k]
            /\ ~Merged => After[k] = Before[k]

\* A merge that finds one feature the record did not know and does not find
\* another the record holds as true.
C3_Witness ==
    /\ Merged
    /\ \E k \in FeatureKeys : website_data.features[k] /\ Before[k] = "None"
    /\ \E k \in FeatureKeys : ~website_data.features[k] /\ Before[k] = "True"

\* One iteration of the loop of a batch, whatever its outcome.
ProcessRecord ==
    \/ NoWebsite
    \/ \E error \in FetchErrors : FetchFailed(error)
    \/ \E page \in BatchPages : FetchOk(page)

\* C4: a fetch failure.  scrape_website returns a result that is marked failed,
\* names a cause and holds no extracted field; the record is exactly what it
\* was, it is appended to the output, and the loop stands at the next record,
\* which it can process.
C4_FetchFailure ==
    last.kind = "failed" =>
        /\ ~website_data.scraped_successfully
        /\ website_data.error # ""
        /\ website_data.website = Before.website
        /\ website_data.keys \cap ExtractedKeys = {}
        /\ After = Before
        /\ enriched[Len(enriched)] = last.idx
        /\ i = last.idx + 1
        /\ i <= Len(lawyers) => (pc = "loop" /\ ENABLED ProcessRecord)

\* The second record of a batch fails to load after the first one failed, and
\* it is a record with every field filled.
C4_Witness ==
    /\ last.kind = "failed"
    /\ last.idx = 2
    /\ outcomes[1] = "failed"
    /\ Before = FullRecord

\* The fields the loop over 'years_experience', 'awards', ... writes, and
\* founded_year, which the claim lists with them.
OtherFields ==
    {"years_experience", "awards", "accreditations", "case_studies", "meta_title",
     "meta_description"}

\* `if website_data.get(field)` for one of OtherFields
Extracted(data, f) ==
    CASE f \in TextFields -> data[f].len > 0
      [] f \in ListFields -> data[f] # <<>>
      [] OTHER -> data[f] # None /\ data[f] # 0

\* C5 as stated: each of the seven fields is set only if the record has no
\* value and the extraction has one; a value the record holds is unchanged.
C5_SetOnlyIfAbsent ==
    Merged =>
        /\ \A f \in OtherFields :
            /\ Populated(Before, f) => After[f] = Before[f]
            /\ After[f] # Before[f] =>
                (~Populated(Before, f) /\ Extracted(website_data, f))
        /\ After.founded_year = Before.founded_year

\* C5 as amended: each of the six fields of the loop takes the extracted value
\* whenever there is one, whether or not the record holds a value, and keeps
\* its value otherwise; founded_year is never written.
C5_SetWhenExtracted ==
    Iterated =>
        /\ \A f \in OtherFields :
            After[f] = IF Merged /\ Extracted(website_data, f)
                       THEN website_data[f]
                       ELSE Before[f]
        /\ After.founded_year = Before.founded_year

\* A merge of extracted awards into a record that holds other awards, and of a
\* result without accreditations into a record that holds some.
C5_Witness ==
    /\ Merged
    /\ Before.awards # <<>> /\ website_data.awards # <<>>
    /\ Before.awards # website_data.awards
    /\ Before.accreditations # <<>> /\ website_data.accreditations = <<>>

\* C6: the description is replaced by the extracted one exactly when the
\* scrape succeeded and the extracted text is longer than 200 characters, and
\* is unchanged in every other case.
C6_DescriptionReplacement ==
    Iterated =>
        LET replaces == Merged /\ website_data.description.len > 200
        IN  /\ replaces => After.description = website_data.description
            /\ ~replaces => After.description = Before.description

\* A merge of a long enough description into a record that holds another one.
C6_Witness ==
    /\ Merged
    /\ website_data.description.len > 200
    /\ Before.description.len > 0
    /\ Before.description # website_data.description

\* No two entries of the list are equal when compared ignoring case.
CaseDeduplicated(l) ==
    \A a, b \in DOMAIN l : a # b => lower(l[a]) # lower(l[b])

\* The list is in ascending order (and so without repetition).
Sorted(l) == \A a, b \in DOMAIN l : a < b => StrLess(l[a], l[b])

\* C7: the specializations after a merge are the case-insensitive union of the
\* record's and the extracted ones.  Every entry of either list is there up
\* to case, and no two entries of the result are equal ignoring case.
C7_CaseInsensitiveUnion ==
    (Merged /\ CaseDeduplicated(Before.specializations)) =>
        /\ \A s \in Range(Before.specializations)
                    \cup Range(website_data.specializations) :
                \E t \in Range(After.specializations) : lower(t) = lower(s)
        /\ CaseDeduplicated(After.specializations)

\* C8: specializations are always sorted and case-insensitively deduplicated,
\* in the list the extractor returns and in the record after every merge.
C8_SortedDeduplicated ==
    /\ website_data.scraped_successfully =>
        (Sorted(website_data.specializations)
            /\ CaseDeduplicated(website_data.specializations))
    /\ (Merged /\ Sorted(Before.specializations)
               /\ CaseDeduplicated(Before.specializations)) =>
        (Sorted(After.specializations) /\ CaseDeduplicated(After.specializations))

\* The half of C8 that is about the extractor alone.
ExtractorSortedDeduplicated ==
    website_data.scraped_successfully =>
        (Sorted(website_data.specializations)
            /\ CaseDeduplicated(website_data.specializations))

\* C9: after the merge of a result in which home visits (telehealth) were
\* detected, home_visits_available (telehealth_available) is true and the
\* features paragraph of the record mentions home and hospital visits
\* (virtual consultations).
C9_DetectedFeatureReachesParagraph ==
    Merged =>
        /\ website_data.features.home_visits =>
            /\ After.home_visits_available = "True"
            /\ Contains(_generate_features_paragraph(After), features_text["home_visits"])
        /\ website_data.features.telehealth =>
            /\ After.telehealth_available = "True"
            /\ Contains(_generate_features_paragraph(After), features_text["telehealth"])

\* C10: years_experience is unknown or lies in [0, 150], in what the extractor
\* returns and in every record.
C10_YearsInRange ==
    /\ website_data.scraped_successfully =>
        (website_data.years_experience = None
            \/ website_data.years_experience \in 0..150)
    /\ \A k \in DOMAIN lawyers :
        (lawyers[k].years_experience = None
            \/ lawyers[k].years_experience \in 0..150)


(***************************************************************************)
(* Claims about the extractors                                             *)
(***************************************************************************)
Called(fn) == call.fn = fn

\* What the phrases of arg say, in the order they stand in the text.
YearsSaid(arg) == SelectSeq([k \in DOMAIN arg |-> Phrases[arg[k]].years],
                            LAMBDA n : n # None)
SinceSaid(arg) == SelectSeq([k \in DOMAIN arg |-> Phrases[arg[k]].since],
                            LAMBDA y : y # None)
FeaturesSaid(arg) == UNION {Phrases[arg[k]].features : k \in DOMAIN arg}
Plausible(year) == 1950 <= year /\ year <= 2024

\* C11: the years-of-experience extractor returns the N of "N[+] years [of]
\* experience" when the text has such a phrase; otherwise, when the text has
\* since/established/founded followed by a year YYYY with 1950 <= YYYY <= 2024,
\* it returns 2024 - YYYY; otherwise it returns nothing.
C11_YearsExtractor ==
    Called("_extract_years_experience") =>
        LET years == YearsSaid(call.arg)
            plausible == SelectSeq(SinceSaid(call.arg), Plausible)
        IN  IF years # <<>> THEN call.result = years[1]
            ELSE IF plausible # <<>> THEN call.result = 2024 - plausible[1]
            ELSE call.result = None

\* C12 as stated: the feature extractor never yields an explicit false for a
\* feature whose pattern is not found in the page.
C12_NeverExplicitFalse ==
    Called("_extract_features") =>
        \A k \in FeatureKeys :
            k \notin FeaturesSaid(call.arg) => call.result[k] # FALSE

\* C12, amended: the feature extractor yields a boolean for each of its five
\* features, true when the page holds the feature's pattern and false when it
\* does not.
C12_ExplicitBoolean ==
    Called("_extract_features") =>
        /\ DOMAIN call.result = FeatureKeys
        /\ \A k \in FeatureKeys : call.result[k] = (k \in FeaturesSaid(call.arg))
C12_Witness ==
    /\ Called("_extract_features")
    /\ FeaturesSaid(call.arg) = {"home_visits"}
    /\ call.result.home_visits
    /\ ~call.result.telehealth

\* C15: two runs of the extractors on the same page return the same result,
\* field by field, the lists in the same order.
C15_Deterministic ==
    Called("scrape_website") => call.result[1] = call.result[2]
C15_Witness ==
    /\ Called("scrape_website")
    /\ Len(call.result[1].specializations) = 2
    /\ call.result[1] = call.result[2]

(***************************************************************************)
(* Claims about the merge of team members and of the contact email         *)
(***************************************************************************)
\* C13: a merge puts the extracted team list in the place of the record's when
\* the extracted list is not empty; the record's list stays as it was when the
\* extracted list is empty, the fetch failed or the record was skipped.
C13_TeamMembersWholesale ==
    Iterated =>
        After.team_members =
            IF Merged /\ website_data.team_members # <<>>
            THEN website_data.team_members
            ELSE Before.team_members
C13_Witness ==
    /\ Merged
    /\ Before.team_members # <<>>
    /\ website_data.team_members # <<>>
    /\ Before.team_members # website_data.team_members
    /\ After.team_members = website_data.team_members

\* The address holds one of 'example', 'test', 'noreply', in any case.
Blacklisted(e) ==
    \E word \in {w["example"], w["test"], w["noreply"]} : Contains(lower(e), word)

\* C14: a merge sets the email only when the record has none and an address
\* was extracted; an email the record holds is never overwritten; an address
\* that holds a blacklisted word is never extracted and never reaches the
\* record.
C14_EmailRule ==
    Iterated =>
        /\ After.email =
              IF Merged /\ Before.email = <<>> /\ website_data.contact_email # <<>>
              THEN website_data.contact_email
              ELSE Before.email
        /\ Merged /\ website_data.contact_email # <<>> =>
              ~Blacklisted(website_data.contact_email)
        /\ After.email # Before.email => ~Blacklisted(After.email)
C14_Witness ==
    /\ Merged
    /\ Before.email = <<>>
    /\ After.email = email["info"]

(***************************************************************************)
(* Claims about the generators                                             *)
(***************************************************************************)
\* The firm name a generator works with: the key's string, or the default of
\* the generator when the key is missing.
FirmOr(default) ==
    IF call.arg.firm_name = Missing THEN default ELSE call.arg.firm_name.v
FirmIsNone == call.arg.firm_name = PyNone

\* C16: generate_meta_title returns at most 60 characters, whatever the lengths
\* of the firm name, the city and the state code, absent ones included; a
\* title that would be longer is its first 57 characters followed by "...".
C16_MetaTitleLength ==
    Called("generate_meta_title") /\ ~FirmIsNone =>
        LET full == meta_title_text(call.arg, FirmOr(default_firm["title_firm"]))
        IN  /\ call.result.is = "str"
            /\ Len(call.result.v) <= 60
            /\ call.result.v = IF Len(full) > 60
                               THEN SubSeq(full, 1, 57) \o <<46, 46, 46>>
                               ELSE full
C16_Witness ==
    /\ Called("generate_meta_title")
    /\ call.arg.firm_name = Missing
    /\ Len(call.arg.city) = MaxCity
    /\ Len(call.result.v) = 60
    /\ SubSeq(call.result.v, 58, 60) = <<46, 46, 46>>

\* result is text, or text cut to 57 characters and "..." when text is longer
\* than 60.
CutOf(result, text) ==
    \/ result = text
    \/ /\ Len(text) > 60
       /\ result = SubSeq(text, 1, 57) \o <<46, 46, 46>>

\* C17: the meta title is "<firm name> - <city> <state code>" when the firm
\* name has at most 30 characters and "Medical Negligence Lawyers <city>" when
\* it has more.
C17_MetaTitleForm ==
    Called("generate_meta_title") /\ ~FirmIsNone =>
        LET firm == FirmOr(default_firm["title_firm"])
        IN  IF Len(firm) <= 30
            THEN CutOf(call.result.v,
                       firm \o short_text["dash"] \o call.arg.city \o meta_text["space"]
                       \o call.arg.state_code)
            ELSE CutOf(call.result.v, meta_text["title_generic"] \o call.arg.city)
C17_Witness ==
    /\ Called("generate_meta_title")
    /\ call.arg.firm_name = PyStr(Name(35))
    /\ call.arg.city = sample_value["city_sydney"]
    /\ call.result.v = meta_text["title_generic"] \o sample_value["city_sydney"]

\* C18: generate_meta_description returns at most 160 characters; a line that
\* would be longer is its first 157 characters followed by "...".
C18_MetaDescriptionLength ==
    Called("generate_meta_description") /\ ~FirmIsNone =>
        LET full == meta_description_text(call.arg, FirmOr(default_firm["meta_firm"]))
        IN  /\ call.result.is = "str"
            /\ Len(call.result.v) <= 160
            /\ Len(full) > 160 =>
                  call.result.v = SubSeq(full, 1, 157) \o <<46, 46, 46>>
C18_Witness ==
    /\ Called("generate_meta_description")
    /\ ~FirmIsNone
    /\ Len(meta_description_text(call.arg, FirmOr(default_firm["meta_firm"]))) > 160
    /\ Len(call.result.v) = 160

\* C19: the short description is the first composition when that has at most
\* 200 characters; a longer one is replaced by the fallback line, and the
\* fallback is shorter than the composition it replaces.
C19_FallbackShorter ==
    Called("generate_short_description") =>
        LET firm == get(call.arg, "firm_name", default_firm["this_law_firm"])
            first == short_description_text(call.arg, firm)
            fallback == short_description_fallback(call.arg, firm)
        IN  IF Len(first) <= 200
            THEN call.result.v = first
            ELSE /\ call.result.v = fallback
                 /\ Len(fallback) < Len(first)

Generators ==
    {"generate_description", "generate_short_description", "generate_meta_title",
     "generate_meta_description"}

\* C20: whichever of the fields are absent from the record, each of the four
\* generators returns a string and raises nothing.
C20_NeverRaises ==
    call.fn \in Generators /\ ~FirmIsNone => call.result.is = "str"
C20_Witness ==
    /\ Called("generate_description")
    /\ call.arg = EmptyData
    /\ call.result.is = "str"
    /\ Len(call.result.v) > 0
(***************************************************************************)
(* Claims about the paragraphs of the long description                     *)
(***************************************************************************)
\* Texts that the generators are expected to produce on the sample records.
expected_text ==
    \* " is a highly experienced, top-rated medical"
    "top_two" :> <<32, 105, 115, 32, 97, 32, 104, 105, 103, 104, 108, 121, 32, 101, 120, 112, 101, 114, 105, 101, 110, 99, 101, 100, 44, 32, 116, 111, 112, 45, 114, 97, 116, 101, 100, 32, 109, 101, 100, 105, 99, 97, 108>>
    \* "include birth injury, surgical error, and cerebral palsy. "
    @@ "three_specs" :> <<105, 110, 99, 108, 117, 100, 101, 32, 98, 105, 114, 116, 104, 32, 105, 110, 106, 117, 114, 121, 44, 32, 115, 117, 114, 103, 105, 99, 97, 108, 32, 101, 114, 114, 111, 114, 44, 32, 97, 110, 100, 32, 99, 101, 114, 101, 98, 114, 97, 108, 32, 112, 97, 108, 115, 121, 46, 32>>
    \* "include birth injury, surgical error, cerebral palsy, and birth injury. "
    @@ "four_specs" :> <<105, 110, 99, 108, 117, 100, 101, 32, 98, 105, 114, 116, 104, 32, 105, 110, 106, 117, 114, 121, 44, 32, 115, 117, 114, 103, 105, 99, 97, 108, 32, 101, 114, 114, 111, 114, 44, 32, 99, 101, 114, 101, 98, 114, 97, 108, 32, 112, 97, 108, 115, 121, 44, 32, 97, 110, 100, 32, 98, 105, 114, 116, 104, 32, 105, 110, 106, 117, 114, 121, 46, 32>>
    \* "Smith & Co is a experienced medical negligence law firm serving Sydney, NSW."
    @@ "first_sentence" :> <<83, 109, 105, 116, 104, 32, 38, 32, 67, 111, 32, 105, 115, 32, 97, 32, 101, 120, 112, 101, 114, 105, 101, 110, 99, 101, 100, 32, 109, 101, 100, 105, 99, 97, 108, 32, 110, 101, 103, 108, 105, 103, 101, 110, 99, 101, 32, 108, 97, 119, 32, 102, 105, 114, 109, 32, 115, 101, 114, 118, 105, 110, 103, 32, 83, 121, 100, 110, 101, 121, 44, 32, 78, 83, 87, 46>>
    \* "Our practice areas include birth injury and surgical error."
    @@ "second_start" :> <<79, 117, 114, 32, 112, 114, 97, 99, 116, 105, 99, 101, 32, 97, 114, 101, 97, 115, 32, 105, 110, 99, 108, 117, 100, 101, 32, 98, 105, 114, 116, 104, 32, 105, 110, 106, 117, 114, 121, 32, 97, 110, 100, 32, 115, 117, 114, 103, 105, 99, 97, 108, 32, 101, 114, 114, 111, 114, 46>>

StartsWith(text, prefix) ==
    Len(prefix) <= Len(text) /\ SubSeq(text, 1, Len(prefix)) = prefix

\* The adjectives the intro chooses from, in the order it considers them, and
\* whether the record d qualifies for adjective a.
Candidates ==
    <<"highly_experienced", "experienced", "top_rated", "well_regarded", "award_winning">>
Qualifies(d, a) ==
    LET years == d.years_experience
        rating == d.google_rating
    IN  CASE a = "highly_experienced" -> years # None /\ years > 20
          [] a = "experienced" -> years # None /\ years > 10 /\ ~(years > 20)
          [] a = "top_rated" -> rating # None /\ rating >= 45
          [] a = "well_regarded" -> rating # None /\ rating >= 40 /\ ~(rating >= 45)
          [] a = "award_winning" -> d.awards # <<>>

\* C21: the intro names the first two of the adjectives the record qualifies
\* for, in the order highly experienced / experienced, top-rated /
\* well-regarded, award-winning, and names "dedicated" exactly when the record
\* qualifies for none.
C21_IntroAdjectives ==
    Called("_generate_intro") =>
        LET qualified == SelectSeq(Candidates, LAMBDA a : Qualifies(call.arg, a))
            used == SubSeq(qualified, 1, IF Len(qualified) < 2 THEN Len(qualified) ELSE 2)
            named == IF qualified = <<>> THEN intro_text["dedicated"]
                     ELSE join(sep_comma, [k \in DOMAIN used |-> intro_text[used[k]]])
            firm_name == format(get(call.arg, "firm_name", default_firm["this_law_firm"]))
        IN  /\ call.result.is = "str"
            /\ Len(used) <= 2
            /\ StartsWith(call.result.v,
                          firm_name \o intro_text["is_a"] \o named \o intro_text["firm"])
C21_Witness ==
    /\ Called("_generate_intro")
    /\ call.arg = FullData
    /\ Contains(call.result.v, expected_text["top_two"])
    /\ ~Contains(call.result.v, intro_text["award_winning"])

\* C22: the intro holds an experience sentence when the years of experience or
\* the founding year is known, and the sentence is the one that begins with
\* "Since <founded_year>" when both are known.
C22_ExperienceSentence ==
    Called("_generate_intro") =>
        LET years == call.arg.years_experience
            founded == call.arg.founded_year
            since == Contains(call.result.v, intro_text["since"])
            with == Contains(call.result.v, intro_text["with"])
        IN  /\ years # None \/ founded # None => since \/ with
            /\ years # None /\ founded # None =>
                  /\ Contains(call.result.v, intro_text["since"] \o str(founded)
                                             \o intro_text["since_tail"])
                  /\ ~with

\* "a", "a and b", "a, b, and c": the join with a comma before the final and.
OxfordJoin(items) ==
    IF Len(items) = 1 THEN items[1]
    ELSE IF Len(items) = 2 THEN items[1] \o sep_and \o items[2]
    ELSE join(sep_comma, SubSeq(items, 1, Len(items) - 1))
         \o <<44>> \o sep_and \o items[Len(items)]

\* C23: with no specializations the paragraph is the generic sentence;
\* otherwise it begins "Our practice areas include <joined>." where joined is
\* the lower-cased items: one by itself, two with " and ", three or more with
\* commas and a final ", and".
C23_SpecializationsJoin ==
    Called("_generate_specializations_paragraph") =>
        LET specs == call.arg.specializations
            lowered == [k \in DOMAIN specs |-> lower(specs[k])]
        IN  /\ call.result.is = "str"
            /\ IF specs = <<>> THEN call.result.v = specs_text["fallback"]
               ELSE StartsWith(call.result.v,
                               specs_text["include"] \o OxfordJoin(lowered) \o sep_stop)
C23_Witness ==
    /\ Called("_generate_specializations_paragraph")
    /\ Len(call.arg.specializations) = 4
    /\ Contains(call.result.v, expected_text["four_specs"])
    /\ ~Contains(call.result.v, expected_text["three_specs"])

\* Where the blank lines of text begin.
BlankLines(text) == {k \in 1..(Len(text) - 1) : SubSeq(text, k, k + 1) = para_sep}

\* C24: the description of the example record has five paragraphs with one
\* blank line between each two, begins with the sentence "Smith & Co is a
\* experienced medical negligence law firm serving Sydney, NSW." and its
\* second paragraph begins "Our practice areas include birth injury and
\* surgical error."
C24_ExampleDescription ==
    Called("generate_description") /\ call.arg = ExampleData =>
        LET text == call.result.v
            blank == BlankLines(text)
            second == SetMin(blank) + 2
        IN  /\ call.result.is = "str"
            /\ Cardinality(blank) = 4
            /\ Cardinality({k \in DOMAIN text : text[k] = 10}) = 8
            /\ \A k \in blank : k > 1 /\ k + 2 <= Len(text)
            /\ StartsWith(text, expected_text["first_sentence"])
            /\ SubSeq(text, second, second + Len(expected_text["second_start"]) - 1)
                  = expected_text["second_start"]
C24_Witness ==
    /\ Called("generate_description")
    /\ call.arg = ExampleData
    /\ Contains(call.result.v, intro_text["since"] \o str(2009))
    /\ Contains(call.result.v, features_text["free_consultation"])

\* C26: the features paragraph names the features the record has, in the
\* order no-win-no-fee, free consultation, visits, virtual consultations,
\* joined with a comma before the final and; with no feature it is the generic
\* sentence; and it holds the responsiveness clause whenever the response time
\* is known.
C26_FeaturesParagraph ==
    Called("_generate_features_paragraph") =>
        LET features == _features_list(call.arg)
            response == call.arg.average_response_time
        IN  /\ IF features = <<>> THEN StartsWith(call.result.v, features_text["fallback"])
               ELSE Contains(call.result.v,
                             features_text["offer"] \o OxfordJoin(features) \o sep_stop)
            /\ response # <<>> =>
                  Contains(call.result.v,
                           features_text["response"] \o lower(response) \o full_stop)

(***************************************************************************)
(* Claims about the batch as a whole                                       *)
(***************************************************************************)
\* C27: an iteration of the batch leaves every record but its own as it was,
\* and what its own record becomes is given by that record and by what the
\* fetch of that record's website returned: the record itself when it has no
\* website or the fetch failed, the merge of the two otherwise.
C27_RecordsIndependent ==
    [][i' = i + 1 =>
          /\ DOMAIN lawyers' = DOMAIN lawyers
          /\ \A j \in DOMAIN lawyers : j # i => lawyers'[j] = lawyers[j]
          /\ IF last'.kind = "merged"
             THEN /\ website_data'.website = lawyers[i].website
                  /\ website_data'.scraped_successfully
                  /\ \E combined \in merge_specializations(lawyers[i], website_data') :
                        lawyers'[i] = merge(lawyers[i], website_data', combined)
             ELSE lawyers'[i] = lawyers[i]]_vars
\* Two records that were equal end up different: the first one's fetch failed,
\* the second one's found a full page.
C27_Witness ==
    /\ pc = "done"
    /\ Len(lawyers) = 2
    /\ outcomes = <<"failed", "merged">>
    /\ Before = EmptyRecord
    /\ lawyers[1] = EmptyRecord
    /\ lawyers[2] # EmptyRecord

\* C28: the list returned holds the records of the list passed in, each once
\* and in the same order, whatever the outcomes of the iterations; the
\* iteration of a record without website changes neither the record nor the
\* result of the last fetch, and no other iteration counts as a skip.
C28_OneEntryPerRecord ==
    [][/\ pc' = "done" =>
            /\ enriched' = [k \in 1..Len(lawyers) |-> k]
            /\ Len(outcomes') = Len(lawyers)
            /\ \A k \in DOMAIN lawyers :
                  outcomes'[k] = "skip" <=> lawyers'[k].website = ""
       /\ i' = i + 1 /\ lawyers[i].website = "" =>
            /\ lawyers' = lawyers
            /\ website_data' = website_data
            /\ last'.kind = "skip"
            /\ enriched' = Append(enriched, i)]_vars
\* A batch of a record without website between none and one that was fetched.
C28_Witness ==
    /\ pc = "done"
    /\ Len(lawyers) = 2
    /\ outcomes = <<"skip", "merged">>
    /\ lawyers[1] = [EmptyRecord EXCEPT !.website = ""]
    /\ enriched = <<1, 2>>

(***************************************************************************)
(* Claims about the pipeline                                               *)
(***************************************************************************)
Summaries == {"short_description", "meta_title", "meta_description"}

\* C29: once generate_descriptions_for_all has run on the enriched list, the
\* short description, the meta title and the meta description of every record
\* are what the generators made of the record, whatever the fields held
\* before; none of them is a text the merge took from the website.
C29_SummariesOverwritten ==
    pc = "final" =>
        \A k \in DOMAIN lawyers :
            /\ lawyers[k].short_description
                  = Generated(generate_short_description(call.arg[k]))
            /\ lawyers[k].meta_title = Generated(generate_meta_title(call.arg[k]))
            /\ lawyers[k].meta_description
                  = Generated(generate_meta_description(call.arg[k]))
            /\ \A f \in Summaries :
                  lawyers[k][f].src = "generated" /\ lawyers[k][f].len > 0
\* The merge took all three from the website, and the final record holds none
\* of them.
C29_Witness ==
    /\ pc = "final"
    /\ last.kind = "merged"
    /\ \A f \in Summaries :
          /\ Before[f].src # "site"
          /\ call.arg[1][f].src = "site"
          /\ lawyers[1][f].src = "generated"

\* C30: generate_descriptions_for_all replaces the description by the long
\* description it synthesizes when the record has none or one of fewer than
\* 100 characters, and leaves a description of 100 characters or more as it
\* is; a description the merge took from the website has more than 200.
C30_DescriptionKept ==
    pc = "final" =>
        \A k \in DOMAIN lawyers :
            LET existing == call.arg[k].description
            IN  /\ existing.src = "site" => existing.len > 200
                /\ IF existing.len < 100
                   THEN lawyers[k].description
                           = Generated(generate_description(call.arg[k]))
                   ELSE lawyers[k].description = existing
\* A description of the website survives the synthesis stage.
C30_Witness ==
    /\ pc = "final"
    /\ last.kind = "merged"
    /\ Before.description.len = 0
    /\ lawyers[1].description = SiteText(300)

(***************************************************************************)
(* Claims about the fetches of one scrape_website call                     *)
(***************************************************************************)
\* C25: a scrape_website call issues at most two GETs, the first one of the
\* page itself; the second one, of the about page, is issued only after the
\* first succeeded and only when the page links to an about page; and when
\* the second fails the call still returns a result marked successful, with
\* no cause of failure, whose description is made of the texts kept from the
\* page alone.
C25_FetchOrder ==
    /\ Len(gets) <= 2
    /\ gets # <<>> => gets[1].url = website_data.website
    /\ Len(gets) = 2 =>
          /\ gets[2].url = about_url
          /\ gets[1].ok
          /\ call.arg.about_link
          /\ pc \in {"combine", "returned"}
    /\ pc = "returned" /\ Len(gets) = 2 /\ ~gets[2].ok =>
          LET kept == SelectSeq(call.arg.fragments, LAMBDA n : n > 100 /\ n < 2000)
          IN  /\ website_data.scraped_successfully
              /\ website_data.error = ""
              /\ description_parts = [k \in DOMAIN kept |-> [from |-> "home", len |-> kept[k]]]
              /\ website_data.description.len
                    \in description_lengths(description_parts)
\* The about page failed to load and the description holds the one text kept
\* from the page.
C25_Witness ==
    /\ pc = "returned"
    /\ Len(gets) = 2
    /\ ~gets[2].ok
    /\ website_data.scraped_successfully
    /\ call.arg.fragments = <<100, 600>>
    /\ website_data.description = SiteText(600)
====
